---- MODULE Spec2Model ----
(***************************************************************************)
(* Resource-holder correlation of zenlixem: the whoholds and whyopen tools *)
(* over the procscan and fsmeta crates.  One behaviour is one invocation   *)
(* of one tool in one mode: the prologue of the pass, one step per pid of  *)
(* the snapshot, and the printing of the result.  Every read under /proc   *)
(* is answered by the environment at the moment it is made.                *)
(***************************************************************************)
EXTENDS Integers, Sequences, FiniteSets, TLC

(***************************************************************************)
(* Bound of the model: pids are 1..MaxPid.                                 *)
(***************************************************************************)
MaxPid == 2

Pids == 1..MaxPid

(***************************************************************************)
(* Option<T>: the empty sequence is None, a one-element sequence is Some.  *)
(***************************************************************************)
None == << >>
Some(v) == << v >>
IsSome(o) == Len(o) = 1

(***************************************************************************)
(* io::Result<T> of one system call, and the error kinds told apart.       *)
(***************************************************************************)
IoErrorKinds == {"NotFound", "PermissionDenied", "Other"}
IoOk(v) == [ok |-> TRUE, val |-> v]
IoErr(k) == [ok |-> FALSE, kind |-> k]

(***************************************************************************)
(* procscan::ProcAccess<T>.                                                *)
(***************************************************************************)
Ok(v) == [tag |-> "Ok", val |-> v]
PermissionDenied == [tag |-> "PermissionDenied"]
Gone == [tag |-> "Gone"]
Fatal == [tag |-> "Fatal"]

\* a classification that takes every error for fatal
classify_all_fatal(kind) == Fatal

classify_proc_io_error(kind) ==
    CASE kind = "NotFound" -> Gone
      [] kind = "PermissionDenied" -> PermissionDenied
      [] OTHER -> Fatal

(***************************************************************************)
(* Text.  A string is a sequence of characters; Char(s, i) is its i-th.    *)
(* AsciiOrder lists the characters the model uses in byte order, so that   *)
(* CharCode orders characters as Rust's str ordering does.                 *)
(***************************************************************************)
Char(s, i) == SubSeq(s, i, i)
Digits == "0123456789"
AsciiOrder == " +-/0123456789:ABCDEFGHIJKLMNOPQRSTUVWXYZ[]_abcdefghijklmnopqrstuvwxyz"
CharCode(c) == CHOOSE i \in 1..Len(AsciiOrder) : Char(AsciiOrder, i) = c
IsDigit(c) == \E i \in 1..10 : Char(Digits, i) = c
DigitVal(c) == (CHOOSE i \in 1..10 : Char(Digits, i) = c) - 1

\* the value of a string of decimal digits, saturating at 2^30 (the numbers
\* of the model are below it)
RECURSIVE DecimalValue(_)
DecimalValue(s) ==
    IF Len(s) = 0 THEN 0
    ELSE LET hi == DecimalValue(SubSeq(s, 1, Len(s) - 1))
         IN  IF hi >= 100000000 THEN 2 ^ 30
             ELSE hi * 10 + DigitVal(Char(s, Len(s)))

\* str::parse for the unsigned integer types: an optional '+', then one or
\* more decimal digits (the strings of the model are short of the type's range).
parse_unsigned(s) ==
    LET body == IF Len(s) > 0 /\ Char(s, 1) = "+" THEN SubSeq(s, 2, Len(s)) ELSE s
    IN  IF Len(body) > 0 /\ \A i \in 1..Len(body) : IsDigit(Char(body, i))
        THEN Some(DecimalValue(body))
        ELSE None

\* format!("{}", n) of an unsigned integer: its decimal digits
RECURSIVE format_decimal(_)
format_decimal(n) ==
    IF n < 10 THEN Char(Digits, n + 1)
    ELSE format_decimal(n \div 10) \o Char(Digits, (n % 10) + 1)

\* str::parse::<i32>: an optional '+' or '-', then one or more decimal digits.
parse_i32(s) ==
    IF Len(s) > 0 /\ Char(s, 1) = "-"
    THEN LET m == parse_unsigned(SubSeq(s, 2, Len(s)))
         IN  IF IsSome(m) /\ Char(s, 2) # "+" THEN Some(0 - m[1]) ELSE None
    ELSE parse_unsigned(s)

\* lexicographic byte order on strings (Ord for String)
RECURSIVE StrLess(_, _)
StrLess(a, b) ==
    IF Len(b) = 0 THEN FALSE
    ELSE IF Len(a) = 0 THEN TRUE
    ELSE IF Char(a, 1) # Char(b, 1) THEN CharCode(Char(a, 1)) < CharCode(Char(b, 1))
    ELSE StrLess(SubSeq(a, 2, Len(a)), SubSeq(b, 2, Len(b)))

\* Vec::dedup: removes consecutive repeated elements
RECURSIVE Dedup(_)
Dedup(s) ==
    IF Len(s) <= 1 THEN s
    ELSE LET d == Dedup(SubSeq(s, 1, Len(s) - 1))
         IN  IF d[Len(d)] = s[Len(s)] THEN d ELSE Append(d, s[Len(s)])

\* Vec::dedup_by: removes each element that is Same as the one kept before it
DedupBy(s, Same(_, _)) ==
    LET RECURSIVE Kept(_)
        Kept(t) ==
            IF Len(t) <= 1 THEN t
            ELSE LET d == Kept(SubSeq(t, 1, Len(t) - 1))
                 IN  IF Same(t[Len(t)], d[Len(d)]) THEN d ELSE Append(d, t[Len(t)])
    IN  Kept(s)

SeqToSet(s) == { s[i] : i \in 1..Len(s) }

(***************************************************************************)
(* 64-bit and 32-bit words as bit vectors (index = bit position), since    *)
(* the device decomposition is bit arithmetic over the whole u64.          *)
(***************************************************************************)
HexDigits == "0123456789abcdef"
HexVal(c) == (CHOOSE i \in 1..16 : Char(HexDigits, i) = c) - 1
Pow2(n) == 2 ^ n

\* the u64 written as 16 hexadecimal digits, most significant first
U64Hex(h) ==
    [i \in 0..63 |-> (HexVal(Char(h, 16 - (i \div 4))) \div Pow2(i % 4)) % 2]
U32Of(n) == [i \in 0..31 |-> IF i < 30 THEN (n \div Pow2(i)) % 2 ELSE 0]
BitAnd(a, b) == [i \in 0..63 |-> a[i] * b[i]]
BitOr(a, b) == [i \in 0..63 |-> IF a[i] = 1 \/ b[i] = 1 THEN 1 ELSE 0]
Shr(a, n) == [i \in 0..63 |-> IF i + n <= 63 THEN a[i + n] ELSE 0]
AsU32(a) == [i \in 0..31 |-> a[i]]

\* the masks of dev_major_minor
MajorLowMask == U64Hex("00000000000fff00")
MajorHighMask == U64Hex("fffff00000000000")
MinorLowMask == U64Hex("00000000000000ff")
MinorHighMask == U64Hex("00000000fff00000")

\* a decomposition with the low part of the major taken from bits 8-11 only
dev_major_minor_narrow_major(dev) ==
    LET major == BitOr(Shr(BitAnd(dev, U64Hex("0000000000000f00")), 8),
                       Shr(BitAnd(dev, MajorHighMask), 32))
        minor == BitOr(BitAnd(dev, MinorLowMask),
                       Shr(BitAnd(dev, MinorHighMask), 12))
    IN  << AsU32(major), AsU32(minor) >>

\* a decomposition with the high part of the minor taken from bits 20-43
dev_major_minor_wide_minor(dev) ==
    LET major == BitOr(Shr(BitAnd(dev, MajorLowMask), 8),
                       Shr(BitAnd(dev, MajorHighMask), 32))
        minor == BitOr(BitAnd(dev, MinorLowMask),
                       Shr(BitAnd(dev, U64Hex("00000ffffff00000")), 12))
    IN  << AsU32(major), AsU32(minor) >>

\* fsmeta::dev_major_minor
dev_major_minor(dev) ==
    LET major == BitOr(Shr(BitAnd(dev, MajorLowMask), 8),
                       Shr(BitAnd(dev, MajorHighMask), 32))
        minor == BitOr(BitAnd(dev, MinorLowMask),
                       Shr(BitAnd(dev, MinorHighMask), 12))
    IN  << AsU32(major), AsU32(minor) >>

(***************************************************************************)
(* procscan: the readers.  Each takes what the file system answered.       *)
(***************************************************************************)

\* str::split_whitespace (the only whitespace of the model's lines is ' ')
RECURSIVE split_whitespace(_)
split_whitespace(s) ==
    IF Len(s) = 0 THEN << >>
    ELSE IF Char(s, 1) = " " THEN split_whitespace(SubSeq(s, 2, Len(s)))
    ELSE LET stops == { i \in 1..Len(s) : Char(s, i) = " " }
             end == IF stops = {} THEN Len(s) + 1
                    ELSE CHOOSE i \in stops : \A j \in stops : i <= j
         IN  << SubSeq(s, 1, end - 1) >> \o split_whitespace(SubSeq(s, end, Len(s)))

\* str::split(':'): the pieces between the colons
RECURSIVE split_colon(_)
split_colon(s) ==
    LET stops == { i \in 1..Len(s) : Char(s, i) = ":" }
    IN  IF stops = {} THEN << s >>
        ELSE LET c == CHOOSE i \in stops : \A j \in stops : i <= j
             IN  << SubSeq(s, 1, c - 1) >> \o split_colon(SubSeq(s, c + 1, Len(s)))

IsHexDigit(c) == \E i \in 1..16 : Char(HexDigits, i) = c \/ Char("0123456789ABCDEF", i) = c
HexDigitVal(c) ==
    (CHOOSE i \in 1..16 : Char(HexDigits, i) = c \/ Char("0123456789ABCDEF", i) = c) - 1

\* the value of a string of hex digits, saturating at 2^30 (the words of the
\* model are below it)
RECURSIVE HexValue(_)
HexValue(s) ==
    IF Len(s) = 0 THEN 0
    ELSE LET hi == HexValue(SubSeq(s, 1, Len(s) - 1))
         IN  IF hi >= Pow2(26) THEN Pow2(30)
             ELSE hi * 16 + HexDigitVal(Char(s, Len(s)))

\* uN::from_str_radix(s, 16): an optional '+', one or more hex digits, and the
\* value below 2^bits
from_str_radix_16(s, bits) ==
    LET body == IF Len(s) > 0 /\ Char(s, 1) = "+" THEN SubSeq(s, 2, Len(s)) ELSE s
        limit == IF bits < 30 THEN Pow2(bits) ELSE Pow2(30)
    IN  IF /\ Len(body) > 0
           /\ \A i \in 1..Len(body) : IsHexDigit(Char(body, i))
           /\ HexValue(body) < limit
        THEN Some(HexValue(body))
        ELSE None

parse_hex_u32(s) == from_str_radix_16(s, 32)
parse_hex_u16(s) == from_str_radix_16(s, 16)
parse_hex_u8(s) == from_str_radix_16(s, 8)

parse_dev_hex(dev) ==
    LET it == split_colon(dev)
    IN  IF Len(it) < 2 THEN None
        ELSE LET major == parse_hex_u32(it[1])
                 minor == parse_hex_u32(it[2])
             IN  IF IsSome(major) /\ IsSome(minor)
                 THEN Some(<< major[1], minor[1] >>)
                 ELSE None

\* slice::sort_by: a stable sort, here by insertion; Less(a, b) is "a sorts
\* before b"
StableSort(s, Less(_, _)) ==
    LET RECURSIVE Sorted(_)
        Sorted(t) ==
            IF Len(t) = 0 THEN << >>
            ELSE LET x == t[Len(t)]
                     front == Sorted(SubSeq(t, 1, Len(t) - 1))
                     after == { i \in 1..Len(front) : Less(x, front[i]) }
                     at == IF after = {} THEN Len(front) + 1
                           ELSE CHOOSE i \in after : \A j \in after : i <= j
                 IN  SubSeq(front, 1, at - 1) \o << x >> \o SubSeq(front, at, Len(front))
    IN  Sorted(s)

\* slice::sort / sort_unstable on integers
SortInts(s) == StableSort(s, LAMBDA a, b : a < b)

RECURSIVE FilterMapPids(_)
FilterMapPids(entries) ==
    IF Len(entries) = 0 THEN << >>
    ELSE LET pid == parse_i32(Head(entries).val)
         IN  (IF IsSome(pid) THEN << pid[1] >> ELSE << >>) \o FilterMapPids(Tail(entries))

\* list_pids without its pids.sort(): the pids in directory order
list_pids_unsorted(dir) ==
    IF ~dir.ok THEN IoErr(dir.kind)
    ELSE IF \E i \in 1..Len(dir.val) : ~dir.val[i].ok
    THEN IoErr("Other")
    ELSE IoOk(FilterMapPids(dir.val))

\* list_pids sorting the names as strings before parsing them
list_pids_in_name_order(dir) ==
    IF ~dir.ok THEN IoErr(dir.kind)
    ELSE IF \E i \in 1..Len(dir.val) : ~dir.val[i].ok
    THEN IoErr("Other")
    ELSE IoOk(FilterMapPids(StableSort(dir.val, LAMBDA a, b : StrLess(a.val, b.val))))

\* list_pids: the names of /proc that parse as i32, sorted.  dir is what
\* read_dir("/proc") answered: the entries in directory order, each a name or
\* an error; the first error, of read_dir or of an entry, is returned.
list_pids(dir) ==
    IF ~dir.ok THEN IoErr(dir.kind)
    ELSE IF \E i \in 1..Len(dir.val) : ~dir.val[i].ok
    THEN LET bad == CHOOSE i \in 1..Len(dir.val) :
                        ~dir.val[i].ok /\ \A j \in 1..(i - 1) : dir.val[j].ok
         IN  IoErr(dir.val[bad].kind)
    ELSE IoOk(SortInts(FilterMapPids(dir.val)))

\* str::trim_end_matches(['\n', '\r'])
RECURSIVE trim_end_newlines(_)
trim_end_newlines(s) ==
    IF Len(s) > 0 /\ Char(s, Len(s)) \in {"\n", "\r"}
    THEN trim_end_newlines(SubSeq(s, 1, Len(s) - 1))
    ELSE s

\* read_comm_access: file is what read_to_string("/proc/<pid>/comm") answered
read_comm_access(file) ==
    IF ~file.ok THEN classify_proc_io_error(file.kind)
    ELSE Ok(trim_end_newlines(file.val))

\* One entry of /proc/<pid>/fd as the file system presents it: the entry itself
\* (ok), its name, what read_link answers for it (link) and what fs::metadata
\* answers for its path (md).  The fd_path of the tuples read_fd_links_access
\* returns is kept as that md: the callers use fd_path only to stat it.
FdEntry(name, link, md) == [ok |-> TRUE, name |-> name, link |-> link, md |-> md]
FdEntryErr == [ok |-> FALSE, name |-> "", link |-> IoErr("Other"), md |-> IoErr("Other")]

RECURSIVE FdTuples(_)
FdTuples(entries) ==
    IF Len(entries) = 0 THEN << >>
    ELSE LET e == Head(entries)
             fd == parse_i32(e.name)
             rest == FdTuples(Tail(entries))
         IN  IF ~e.ok \/ ~IsSome(fd) THEN rest
             ELSE << [fd |-> fd[1],
                      fd_path |-> e.md,
                      link |-> IF e.link.ok THEN e.link.val ELSE ""] >> \o rest

\* read_fd_links_access: dir is what read_dir("/proc/<pid>/fd") answered
read_fd_links_access(dir) ==
    IF ~dir.ok THEN classify_proc_io_error(dir.kind)
    ELSE Ok(StableSort(FdTuples(dir.val), LAMBDA a, b : a.fd < b.fd))

\* one line of /proc/<pid>/maps: the entry it yields, or None when skipped
parse_maps_line(line) ==
    LET parts == split_whitespace(line)
    IN  IF Len(parts) < 5 THEN None
        ELSE LET dev == parse_dev_hex(parts[4])
                 inode == parse_unsigned(parts[5])
             IN  IF ~IsSome(dev) \/ ~IsSome(inode) THEN None
                 ELSE Some([dev_major |-> dev[1][1],
                            dev_minor |-> dev[1][2],
                            inode |-> inode[1],
                            pathname |-> IF Len(parts) >= 6 THEN Some(parts[6]) ELSE None])

RECURSIVE MapsEntries(_)
MapsEntries(lines) ==
    IF Len(lines) = 0 THEN << >>
    ELSE parse_maps_line(Head(lines).val) \o MapsEntries(Tail(lines))

\* a reading of the mappings that ends at the first line it cannot parse
RECURSIVE MapsEntriesUntilMalformed(_)
MapsEntriesUntilMalformed(lines) ==
    IF Len(lines) = 0 THEN << >>
    ELSE LET entry == parse_maps_line(Head(lines).val)
         IN  IF entry = None THEN << >>
             ELSE entry \o MapsEntriesUntilMalformed(Tail(lines))

read_proc_maps_access_until_malformed(file) ==
    IF ~file.ok THEN classify_proc_io_error(file.kind)
    ELSE IF \E i \in 1..Len(file.val) : ~file.val[i].ok
    THEN LET bad == CHOOSE i \in 1..Len(file.val) :
                        ~file.val[i].ok /\ \A j \in 1..(i - 1) : file.val[j].ok
         IN  classify_proc_io_error(file.val[bad].kind)
    ELSE Ok(MapsEntriesUntilMalformed(file.val))

\* read_proc_maps_access: file is what File::open("/proc/<pid>/maps") answered,
\* its value the lines of the file, each read or failing
read_proc_maps_access(file) ==
    IF ~file.ok THEN classify_proc_io_error(file.kind)
    ELSE IF \E i \in 1..Len(file.val) : ~file.val[i].ok
    THEN LET bad == CHOOSE i \in 1..Len(file.val) :
                        ~file.val[i].ok /\ \A j \in 1..(i - 1) : file.val[j].ok
         IN  classify_proc_io_error(file.val[bad].kind)
    ELSE Ok(MapsEntries(file.val))

\* str::split_once(':')
split_once_colon(s) ==
    LET stops == { i \in 1..Len(s) : Char(s, i) = ":" }
    IN  IF stops = {} THEN None
        ELSE LET c == CHOOSE i \in stops : \A j \in stops : i <= j
             IN  Some(<< SubSeq(s, 1, c - 1), SubSeq(s, c + 1, Len(s)) >>)

\* one data line of a /proc/net table: the entry it yields, or None when skipped
parse_proc_net_line(line, proto) ==
    LET it == split_whitespace(line)
    IN  IF Len(it) < 10 THEN None
        ELSE LET local_address == split_once_colon(it[2])
                 state == parse_hex_u8(it[4])
                 inode == parse_unsigned(it[10])
             IN  IF ~IsSome(local_address) THEN None
                 ELSE LET local_port == parse_hex_u16(local_address[1][2])
                      IN  IF ~IsSome(local_port) \/ ~IsSome(state) \/ ~IsSome(inode)
                          THEN None
                          ELSE Some([proto |-> proto,
                                     local_port |-> local_port[1],
                                     inode |-> inode[1],
                                     state |-> state[1]])

RECURSIVE ProcNetEntries(_, _)
ProcNetEntries(lines, proto) ==
    IF Len(lines) = 0 THEN << >>
    ELSE parse_proc_net_line(Head(lines).val, proto) \o ProcNetEntries(Tail(lines), proto)

\* a parsing that takes the first line for data too
parse_proc_net_file_first_line_too(file, proto) ==
    IF ~file.ok THEN IoErr(file.kind)
    ELSE IF \E i \in 1..Len(file.val) : ~file.val[i].ok
    THEN LET bad == CHOOSE i \in 1..Len(file.val) :
                        ~file.val[i].ok /\ \A j \in 1..(i - 1) : file.val[j].ok
         IN  IoErr(file.val[bad].kind)
    ELSE IoOk(ProcNetEntries(file.val, proto))

\* parse_proc_net_file: file is what File::open(path) answered, its value the
\* lines of the file, each read or failing; line 0 is the header
parse_proc_net_file(file, proto) ==
    IF ~file.ok THEN IoErr(file.kind)
    ELSE IF \E i \in 1..Len(file.val) : ~file.val[i].ok
    THEN LET bad == CHOOSE i \in 1..Len(file.val) :
                        ~file.val[i].ok /\ \A j \in 1..(i - 1) : file.val[j].ok
         IN  IoErr(file.val[bad].kind)
    ELSE IF Len(file.val) = 0 THEN IoOk(<< >>)
    ELSE IoOk(ProcNetEntries(Tail(file.val), proto))

\* a reading of the tables that fails when one of them fails
read_proc_net_sockets_all_or_nothing(net) ==
    LET tcp == parse_proc_net_file(net.tcp, "Tcp")
        tcp6 == parse_proc_net_file(net.tcp6, "Tcp6")
        udp == parse_proc_net_file(net.udp, "Udp")
        udp6 == parse_proc_net_file(net.udp6, "Udp6")
    IN  IF ~tcp.ok THEN tcp
        ELSE IF ~tcp6.ok THEN tcp6
        ELSE IF ~udp.ok THEN udp
        ELSE IF ~udp6.ok THEN udp6
        ELSE IoOk(tcp.val \o tcp6.val \o udp.val \o udp6.val)

\* read_proc_net_sockets: net is what /proc/net answered for tcp, tcp6, udp, udp6
read_proc_net_sockets(net) ==
    LET tcp == parse_proc_net_file(net.tcp, "Tcp")
        tcp6 == parse_proc_net_file(net.tcp6, "Tcp6")
        udp == parse_proc_net_file(net.udp, "Udp")
        udp6 == parse_proc_net_file(net.udp6, "Udp6")
    IN  IoOk((IF tcp.ok THEN tcp.val ELSE << >>)
             \o (IF tcp6.ok THEN tcp6.val ELSE << >>)
             \o (IF udp.ok THEN udp.val ELSE << >>)
             \o (IF udp6.ok THEN udp6.val ELSE << >>))

(***************************************************************************)
(* whoholds / whyopen: the per-pid checks (the two tools hold identical     *)
(* copies of them).                                                        *)
(***************************************************************************)

\* fsmeta::FileId; dev is the u64 written as 16 hexadecimal digits
FileId(dev, inode) == [dev |-> dev, inode |-> inode]

RECURSIVE AnyFdIs(_, _)
AnyFdIs(links, target) ==
    IF Len(links) = 0 THEN FALSE
    ELSE LET md == Head(links).fd_path
         IN  IF md.ok /\ md.val = target THEN TRUE
             ELSE AnyFdIs(Tail(links), target)

\* a descriptor check that makes a fatal error of a denied read
scan_fd_file_denied_is_fatal(links, target) ==
    IF links.tag = "PermissionDenied" THEN Fatal
    ELSE IF links.tag # "Ok" THEN links
    ELSE Ok(AnyFdIs(links.val, target))

\* scan_pid_open_fd_file: links is what its read_fd_links_access(pid) returned
scan_pid_open_fd_file(links, target) ==
    IF links.tag # "Ok" THEN links
    ELSE Ok(AnyFdIs(links.val, target))

RECURSIVE AnyMapIs(_, _, _, _)
AnyMapIs(maps, target_major, target_minor, target_inode) ==
    IF Len(maps) = 0 THEN FALSE
    ELSE LET entry == Head(maps)
         IN  IF entry.inode = 0
             THEN AnyMapIs(Tail(maps), target_major, target_minor, target_inode)
             ELSE IF /\ entry.inode = target_inode
                     /\ U32Of(entry.dev_major) = target_major
                     /\ U32Of(entry.dev_minor) = target_minor
             THEN TRUE
             ELSE AnyMapIs(Tail(maps), target_major, target_minor, target_inode)

\* a mapping check that makes a fatal error of a vanished pid
scan_mmap_gone_is_fatal(maps, target_major, target_minor, target_inode) ==
    IF maps.tag = "Gone" THEN Fatal
    ELSE IF maps.tag # "Ok" THEN maps
    ELSE Ok(AnyMapIs(maps.val, target_major, target_minor, target_inode))

\* a mapping check that compares the entries of inode 0 as well
RECURSIVE AnyMapIsZeroToo(_, _, _, _)
AnyMapIsZeroToo(maps, target_major, target_minor, target_inode) ==
    IF Len(maps) = 0 THEN FALSE
    ELSE LET entry == Head(maps)
         IN  IF /\ entry.inode = target_inode
                /\ U32Of(entry.dev_major) = target_major
                /\ U32Of(entry.dev_minor) = target_minor
             THEN TRUE
             ELSE AnyMapIsZeroToo(Tail(maps), target_major, target_minor, target_inode)

scan_mmap_zero_inode_too(maps, target_major, target_minor, target_inode) ==
    IF maps.tag # "Ok" THEN maps
    ELSE Ok(AnyMapIsZeroToo(maps.val, target_major, target_minor, target_inode))

\* scan_pid_mmap_file: maps is what its read_proc_maps_access(pid) returned
scan_pid_mmap_file(maps, target_major, target_minor, target_inode) ==
    IF maps.tag # "Ok" THEN maps
    ELSE Ok(AnyMapIs(maps.val, target_major, target_minor, target_inode))

\* parse_socket_inode
parse_socket_inode(link) ==
    IF Len(link) < 8 \/ SubSeq(link, 1, 8) # "socket:[" THEN None
    ELSE LET rest == SubSeq(link, 9, Len(link))
         IN  IF Len(rest) < 1 \/ Char(rest, Len(rest)) # "]" THEN None
             ELSE parse_unsigned(SubSeq(rest, 1, Len(rest) - 1))

RECURSIVE AnySocketIn(_, _)
AnySocketIn(links, inodes) ==
    IF Len(links) = 0 THEN FALSE
    ELSE LET inode == parse_socket_inode(Head(links).link)
         IN  IF IsSome(inode) /\ inode[1] \in inodes THEN TRUE
             ELSE AnySocketIn(Tail(links), inodes)

\* a socket check that takes a denied read for a vanished pid
scan_fd_socket_denied_is_gone(links, inodes) ==
    IF links.tag = "PermissionDenied" THEN Gone
    ELSE IF links.tag # "Ok" THEN links
    ELSE Ok(AnySocketIn(links.val, inodes))

\* scan_pid_open_fd_socket: links is what its read_fd_links_access(pid) returned
scan_pid_open_fd_socket(links, inodes) ==
    IF links.tag # "Ok" THEN links
    ELSE Ok(AnySocketIn(links.val, inodes))

\* a command name left empty when it cannot be read
read_comm_or_empty(comm) ==
    IF comm.tag = "Ok" THEN comm.val ELSE ""

\* whyopen's read_comm_best_effort, and the same match written out at each
\* command-name read of whoholds: comm is what read_comm_access(pid) returned
read_comm_best_effort(comm) ==
    IF comm.tag = "Ok" THEN comm.val ELSE "<unknown>"

\* proto_label_and_sort (whoholds), proto_label (whyopen)
proto_label_and_sort(proto) ==
    IF proto \in {"Tcp", "Tcp6"} THEN << "tcp", 0 >> ELSE << "udp", 1 >>
proto_label(proto) ==
    IF proto \in {"Tcp", "Tcp6"} THEN "tcp" ELSE "udp"

\* format!("0x{state:02X}") of a u8
UpperHexDigits == "0123456789ABCDEF"
format_02X(state) ==
    "0x" \o Char(UpperHexDigits, (state \div 16) + 1) \o Char(UpperHexDigits, (state % 16) + 1)

\* a labelling of the states that does not look at the protocol
socket_state_label_any_proto(proto, state) ==
    CASE state = 1 -> "established"
      [] state = 10 -> "listening"
      [] state = 7 -> "listening"
      [] OTHER -> format_02X(state)

\* socket_state_label
socket_state_label(proto, state) ==
    LET label == IF proto \in {"Tcp", "Tcp6"}
                 THEN (CASE state = 1 -> "established"
                         [] state = 10 -> "listening"
                         [] OTHER -> "")
                 ELSE (CASE state = 7 -> "listening"
                         [] OTHER -> "")
    IN  IF label = "" THEN format_02X(state) ELSE label

(***************************************************************************)
(* BTreeMap<K, V> with integer keys: a sequence of [key, value] kept in    *)
(* ascending key order, one entry per key.                                 *)
(***************************************************************************)
BTreeKeys(m) == { m[i].key : i \in 1..Len(m) }
BTreeGet(m, k) == m[CHOOSE i \in 1..Len(m) : m[i].key = k].value

\* BTreeMap::insert: replaces the value of a present key, places a new key in
\* key order
BTreeInsert(m, k, v) ==
    LET below == SelectSeq(m, LAMBDA e : e.key < k)
        above == SelectSeq(m, LAMBDA e : e.key > k)
    IN  below \o << [key |-> k, value |-> v] >> \o above

(***************************************************************************)
(* The environment: what the file system can answer to each read.          *)
(***************************************************************************)
IdA == FileId("0000000000000801", 7)
IdB == FileId("0000000000100800", 7)
IdSock == FileId("0000000000000008", 9)

\* fs::metadata(path) of the target path
TargetIo == { IoOk(IdA), IoOk(IdB) } \cup { IoErr(k) : k \in IoErrorKinds }

\* read_dir("/proc"): the names 1..MaxPid and "self", any of them present, in
\* any order; or the whole listing, or one entry of it, failing
DirEntry(name) == IoOk(name)
DirNames == { ToString(p) : p \in Pids } \cup { "self" }

RECURSIVE Arrangements(_)
Arrangements(S) ==
    IF S = {} THEN { << >> }
    ELSE UNION { { << x >> \o a : a \in Arrangements(S \ {x}) } : x \in S }

ProcRootIo ==
    { IoOk(a) : a \in UNION { Arrangements({ DirEntry(n) : n \in N }) : N \in SUBSET DirNames } }
    \cup { IoErr("Other"), IoOk(<< DirEntry("1"), IoErr("Other") >>) }

\* read_dir("/proc/<pid>/fd")
FdListings ==
    { << FdEntry("4", IoOk("socket:[7]"), IoOk(IdSock)),
         FdEntry("3", IoOk("/data/a"), IoOk(IdA)) >>,
      << FdEntry("6", IoOk("socket:[7]"), IoOk(IdSock)),
         FdEntry("5", IoOk("socket:[9]"), IoOk(IdSock)),
         FdEntry("7", IoOk("socket:[7]"), IoOk(IdSock)) >>,
      << FdEntry("3", IoErr("NotFound"), IoErr("NotFound")),
         FdEntryErr,
         FdEntry("0", IoOk("/data/b"), IoOk(IdB)),
         FdEntry("8", IoOk("socket:[x]"), IoErr("PermissionDenied")),
         FdEntry("9", IoOk("pipe:[7]"), IoOk(IdSock)) >> }
FdDirIo == { IoOk(l) : l \in FdListings } \cup { IoErr(k) : k \in IoErrorKinds }

\* File::open("/proc/<pid>/maps") and its lines
Line(text) == IoOk(text)
MapsFiles ==
    { << Line("00400000-0040b000 r-xp 00000000 08:01 7 /data/a"),
         Line("7ffd0000-7ffe0000 rw-p 00000000 00:00 0 [stack]") >>,
      << Line("zz"),
         Line("00400000-0040b000 r-xp 00000000 08:100 0"),
         Line("00400000-0040b000 r-xp 00000000 08:1 x9 /data/c"),
         Line("00400000-0040b000 r-xp 00000000 08:01 9 /data/d"),
         Line("00400000-0040b000 r-xp 00000000 09:01 7 /data/e"),
         Line("00600000-0060b000 r--p 00000000 08:100 7 /data/b") >> }
MapsIo == { IoOk(f) : f \in MapsFiles } \cup { IoErr(k) : k \in IoErrorKinds }

\* File::open of /proc/net/tcp, tcp6, udp, udp6 and their lines
NetHeader ==
    Line("  sl  local_address rem_address   st tx_queue rx_queue tr tm->when retrnsmt   uid  timeout inode")
NetLine(local_address, st, inode) ==
    Line("   0: " \o local_address \o " 00000000:0000 " \o st
         \o " 00000000:00000000 00:00000000 00000000  1000        0 " \o inode
         \o " 2 0000000000000000 100 0 0 10 0")
NetIo ==
    { [tcp |-> IoOk(<< NetHeader, NetLine("0100007F:0035", "0A", "7"),
                       NetLine("0100007F:0050", "01", "4") >>),
       tcp6 |-> IoErr("NotFound"),
       udp |-> IoOk(<< NetHeader, NetLine("00000000:0035", "07", "9") >>),
       udp6 |-> IoOk(<< NetHeader, Line("   0: 00000000:0035 00000000:0000 07") >>)],
      [tcp |-> IoOk(<< NetHeader, NetLine("0100007F:0050", "0A", "9"),
                       NetLine("0100007F:0050", "01", "7"),
                       NetLine("0100007F:0016", "06", "4") >>),
       tcp6 |-> IoOk(<< NetHeader, NetLine("00000000000000000000000000000000:0050", "0A", "7") >>),
       udp |-> IoOk(<< NetHeader, NetLine("00000000:zz35", "07", "9"),
                       NetLine("0100007F:0050", "01", "9") >>),
       udp6 |-> IoErr("PermissionDenied")],
      [tcp |-> IoOk(<< NetHeader >>),
       tcp6 |-> IoErr("NotFound"),
       udp |-> IoOk(<< >>),
       udp6 |-> IoErr("NotFound")] }

\* the target port of port mode
PortSamples == { 53, 80 }

\* read_to_string("/proc/<pid>/comm")
CommIo == { IoOk("bash\n") } \cup { IoErr(k) : k \in IoErrorKinds }

(***************************************************************************)
(* What each reader returns for each answer of the file system.            *)
(***************************************************************************)
PidsOf == [dir \in ProcRootIo |-> list_pids(dir)]
FdLinksOf == [dir \in FdDirIo |-> read_fd_links_access(dir)]
MapsOf == [file \in MapsIo |-> read_proc_maps_access(file)]
CommOf == [file \in CommIo |-> read_comm_access(file)]
SocketsOf == [net \in NetIo |-> read_proc_net_sockets(net)]

\* the answers read_fd_links_access, read_proc_maps_access and read_comm_access
\* can give for a pid, and list_pids for /proc
ListPidsResults == { PidsOf[dir] : dir \in ProcRootIo }
FdLinksResults == { FdLinksOf[dir] : dir \in FdDirIo }
MapsResults == { MapsOf[file] : file \in MapsIo }
CommResults == { CommOf[file] : file \in CommIo }
SocketsResults == { SocketsOf[net] : net \in NetIo }

(***************************************************************************)
(* HashMap<K, V> (and a BTreeMap only looked up by key): a function on the *)
(* keys present.                                                           *)
(***************************************************************************)
EmptyMap == << >>
MapPut(m, k, v) == [x \in (DOMAIN m) \cup { k } |-> IF x = k THEN v ELSE m[x]]

(***************************************************************************)
(* The state of one invocation.                                            *)
(***************************************************************************)
PathModes == { "whoholds_path", "whyopen_path" }
PortModes == { "whoholds_port", "whyopen_port" }
Modes == PathModes \cup PortModes \cup { "whoholds_ports" }

VARIABLES
    mode,                       \* the tool and the mode run() dispatches to
    port,                       \* port mode: the target port
    listening,                  \* ports listing: --listening
    established,                \* ports listing: --established
    pc,                         \* "begin", "scan" (the loop over pids), "done"
    target_id,                  \* path mode: Option<FileId> of the target
    target_dev,                 \* path mode: (tmaj, tmin)
    sockets,                    \* port mode, ports listing: the socket entries
    target_inodes,              \* port mode, ports listing: HashSet<u64>
    inode_to_labels,            \* whyopen port mode: HashMap<u64, Vec<String>>
    pids,                       \* the snapshot list_pids() returned
    idx,                        \* position of the loop in pids
    holders,                    \* whoholds: holders; whyopen: results
    inode_to_pids,              \* ports listing: BTreeMap<u64, Vec<i32>>
    comm_cache,                 \* ports listing: HashMap<i32, String>
    skipped_permission_denied,  \* HashSet<i32>
    result,                     \* what run() returned: "Ok", "InvalidInput", "Fatal"
    out,                        \* what was printed: nothing, or one result body
    reads,                      \* the reads made so far, in order, with their answers
    earlier,                    \* the pass run before this one on the same system, if any
    call,                       \* a library function called on its own: << name, argument >>
    ret                         \* what that call returned, once it has

args == << mode, port, listening, established, earlier, call, ret >>
target == << target_id, target_dev, sockets, target_inodes, inode_to_labels >>
found == << holders, inode_to_pids, comm_cache, skipped_permission_denied >>
vars == << args, target, found, pc, pids, idx, result, out, reads >>

Read(op, pid, res) == [op |-> op, pid |-> pid, res |-> res]

\* clap: --listening and --established need --ports and exclude each other
Init ==
    /\ mode \in Modes
    /\ port \in IF mode \in PortModes THEN PortSamples ELSE { 0 }
    /\ listening \in IF mode = "whoholds_ports" THEN BOOLEAN ELSE { FALSE }
    /\ established \in IF mode = "whoholds_ports" /\ ~listening THEN BOOLEAN ELSE { FALSE }
    /\ pc = "begin"
    /\ target_id = None
    /\ target_dev = None
    /\ sockets = << >>
    /\ target_inodes = {}
    /\ inode_to_labels = EmptyMap
    /\ pids = << >>
    /\ idx = 1
    /\ holders = << >>
    /\ inode_to_pids = EmptyMap
    /\ comm_cache = EmptyMap
    /\ skipped_permission_denied = {}
    /\ result = "running"
    /\ out = << >>
    /\ reads = << >>
    /\ earlier = None
    /\ call = None
    /\ ret = None

\* what a read answers: anything the system can answer, but to a read the
\* earlier pass made what it answered then (the system has not changed)
Answers(op, pid, any) ==
    IF earlier = None THEN any
    ELSE LET log == earlier[1].reads
             then == { log[i].res : i \in { j \in 1..Len(log) :
                                               log[j].pid = pid /\ log[j].op = op } }
         IN  IF then = {} THEN any ELSE then

\* return Err(AppError::...) out of the pass: nothing is printed
Return(err, log) ==
    /\ pc' = "done"
    /\ result' = err
    /\ reads' = log
    /\ UNCHANGED << args, target, found, pids, idx, out >>

\* the end of one iteration of the loop over pids of the holder modes
NextPid(h, skipped, log) ==
    /\ idx' = idx + 1
    /\ holders' = h
    /\ skipped_permission_denied' = skipped
    /\ reads' = log
    /\ UNCHANGED << args, target, inode_to_pids, comm_cache, pc, pids, result, out >>

\* a body that is never labelled partial
ResultBodyUnlabelled(rows, skipped) ==
    [partial |-> FALSE, skipped |-> skipped, partial_line |-> None, results |-> rows]

\* print_json_holders / print_holders, print_json / print_human,
\* print_json_ports / print_ports.
\* the body printed for a successful pass: partial, skipped and results as the
\* JSON object holds them, partial_line the "Partial result" line of the human
\* output, if it is printed
ResultBody(rows, skipped) ==
    [partial |-> skipped > 0,
     skipped |-> skipped,
     partial_line |-> IF skipped > 0
                      THEN Some("Partial result: " \o format_decimal(skipped)
                                \o " processes skipped (permission denied)")
                      ELSE None,
     results |-> rows]

\* the rows print_json_holders and print_holders make of the holders, in the
\* order the map is iterated
HolderRows(h) ==
    [i \in 1..Len(h) |-> [pid |-> h[i].key,
                          command |-> h[i].value[2],
                          reason |-> h[i].value[1]]]

\* the rows print_json and print_human make of the results
ProcResultRows(r) == [i \in 1..Len(r) |-> r[i].value]

\* let pids = list_pids().map_err(Fatal)?: the snapshot, and the loop entered
ListPids(log) ==
    \E snapshot \in Answers("list_pids", 0, ListPidsResults) :
        LET log2 == Append(log, Read("list_pids", 0, snapshot))
        IN  IF ~snapshot.ok
            THEN /\ pc' = "done"
                 /\ result' = "Fatal"
                 /\ reads' = log2
                 /\ UNCHANGED << args, found, pids, idx, out >>
            ELSE /\ pc' = "scan"
                 /\ pids' = snapshot.val
                 /\ reads' = log2
                 /\ UNCHANGED << args, found, idx, result, out >>

\* an error rule that takes every failure to read the identity for fatal
path_error_always_fatal(kind) == "Fatal"

\* whoholds_path, whyopen_path: the error for a failed file_id_for_path(path)
path_error(kind) == IF kind = "NotFound" THEN "InvalidInput" ELSE "Fatal"

\* main: the exit code for what run(args) returned
exit_code(r) ==
    IF r = "InvalidInput" THEN 1
    ELSE IF r = "Fatal" THEN 2
    ELSE 0

\* whoholds_path, whyopen_path up to the loop: the identity of the target
path_begin ==
    /\ mode \in PathModes
    /\ pc = "begin"
    /\ \E md \in Answers("file_id_for_path", 0, TargetIo) :
        LET log == Append(reads, Read("file_id_for_path", 0, md))
        IN  IF ~md.ok
            THEN Return(path_error(md.kind), log)
            ELSE /\ target_id' = Some(md.val)
                 /\ target_dev' = dev_major_minor(U64Hex(md.val.dev))
                 /\ UNCHANGED << sockets, target_inodes, inode_to_labels >>
                 /\ ListPids(log)

\* a skip rule that takes one denied check for a skipped pid
either_denied(open_fd_denied, maps_denied) == open_fd_denied \/ maps_denied

\* whoholds_path: if open_fd_denied && maps_denied
fully_denied(open_fd_denied, maps_denied) == open_fd_denied /\ maps_denied

\* whoholds_path: one iteration of the loop over pids
whoholds_path_pid ==
    /\ mode = "whoholds_path"
    /\ pc = "scan"
    /\ idx <= Len(pids)
    /\ \E links \in Answers("read_fd_links_access", pids[idx], FdLinksResults) :
        LET pid == pids[idx]
            fd == scan_pid_open_fd_file(links, target_id[1])
            log1 == Append(reads, Read("read_fd_links_access", pid, links))
        IN  CASE fd.tag = "Ok" /\ fd.val ->
                   \E comm \in Answers("read_comm_access", pids[idx], CommResults) :
                       NextPid(BTreeInsert(holders, pid, << "OpenFd", read_comm_best_effort(comm) >>),
                               skipped_permission_denied,
                               Append(log1, Read("read_comm_access", pid, comm)))
              [] fd.tag = "Gone" -> NextPid(holders, skipped_permission_denied, log1)
              [] fd.tag = "Fatal" -> Return("Fatal", log1)
              [] OTHER ->
                   \E maps \in Answers("read_proc_maps_access", pids[idx], MapsResults) :
                       LET open_fd_denied == fd.tag = "PermissionDenied"
                           mm == scan_pid_mmap_file(maps, target_dev[1], target_dev[2],
                                                    target_id[1].inode)
                           log2 == Append(log1, Read("read_proc_maps_access", pid, maps))
                       IN  CASE mm.tag = "Ok" /\ mm.val ->
                                  \E comm \in Answers("read_comm_access", pids[idx], CommResults) :
                                      NextPid(BTreeInsert(holders, pid,
                                                  << "Mmap", read_comm_best_effort(comm) >>),
                                              skipped_permission_denied,
                                              Append(log2, Read("read_comm_access", pid, comm)))
                             [] mm.tag = "Gone" -> NextPid(holders, skipped_permission_denied, log2)
                             [] mm.tag = "Fatal" -> Return("Fatal", log2)
                             [] OTHER ->
                                  LET maps_denied == mm.tag = "PermissionDenied"
                                  IN  NextPid(holders,
                                              IF fully_denied(open_fd_denied, maps_denied)
                                              THEN skipped_permission_denied \cup { pid }
                                              ELSE skipped_permission_denied,
                                              log2)

\* whoholds_path, whoholds_port after the loop: the holders are printed
whoholds_print ==
    /\ mode \in { "whoholds_path", "whoholds_port" }
    /\ pc = "scan"
    /\ idx > Len(pids)
    /\ pc' = "done"
    /\ result' = "Ok"
    /\ out' = << ResultBody(HolderRows(holders), Cardinality(skipped_permission_denied)) >>
    /\ UNCHANGED << args, target, found, pids, idx, reads >>

\* reasons.dedup() without the reasons.sort() before it
dedup_unsorted(reasons) == Dedup(reasons)

\* reasons.sort(); reasons.dedup()
sort_dedup(reasons) == Dedup(StableSort(reasons, StrLess))

\* a recording that also counts as skipped a pid it records, when one of its
\* checks was denied
whyopen_record_counting_denied(pid, any_denied, reasons, comm, log) ==
    IF Len(reasons) = 0
    THEN NextPid(holders,
                 IF any_denied THEN skipped_permission_denied \cup { pid }
                 ELSE skipped_permission_denied,
                 log)
    ELSE NextPid(BTreeInsert(holders, pid,
                     [pid |-> pid,
                      command |-> IF IsSome(comm) THEN comm[1] ELSE "<unknown>",
                      reasons |-> sort_dedup(reasons)]),
                 IF any_denied THEN skipped_permission_denied \cup { pid }
                 ELSE skipped_permission_denied,
                 log)

\* whyopen_path, whyopen_port: the end of an iteration that came through both
\* checks: the pid is skipped, or its reasons are finalized and recorded
whyopen_record(pid, any_denied, reasons, comm, log) ==
    IF Len(reasons) = 0
    THEN NextPid(holders,
                 IF any_denied THEN skipped_permission_denied \cup { pid }
                 ELSE skipped_permission_denied,
                 log)
    ELSE NextPid(BTreeInsert(holders, pid,
                     [pid |-> pid,
                      command |-> IF IsSome(comm) THEN comm[1] ELSE "<unknown>",
                      reasons |-> sort_dedup(reasons)]),
                 skipped_permission_denied,
                 log)

\* whyopen_path: the mapping check of one iteration and what follows it
whyopen_path_mmap(pid, any_denied, reasons, comm, log) ==
    \E maps \in Answers("read_proc_maps_access", pids[idx], MapsResults) :
        LET mm == scan_pid_mmap_file(maps, target_dev[1], target_dev[2], target_id[1].inode)
            log2 == Append(log, Read("read_proc_maps_access", pid, maps))
        IN  CASE mm.tag = "Ok" /\ mm.val ->
                   IF IsSome(comm)
                   THEN whyopen_record(pid, any_denied, Append(reasons, "memory mapped"),
                                       comm, log2)
                   ELSE \E c \in Answers("read_comm_access", pids[idx], CommResults) :
                            whyopen_record(pid, any_denied, Append(reasons, "memory mapped"),
                                           Some(read_comm_best_effort(c)),
                                           Append(log2, Read("read_comm_access", pid, c)))
              [] mm.tag = "Ok" /\ ~mm.val -> whyopen_record(pid, any_denied, reasons, comm, log2)
              [] mm.tag = "PermissionDenied" -> whyopen_record(pid, TRUE, reasons, comm, log2)
              [] mm.tag = "Gone" -> NextPid(holders, skipped_permission_denied, log2)
              [] OTHER -> Return("Fatal", log2)

\* whyopen_path: one iteration of the loop over pids
whyopen_path_pid ==
    /\ mode = "whyopen_path"
    /\ pc = "scan"
    /\ idx <= Len(pids)
    /\ \E links \in Answers("read_fd_links_access", pids[idx], FdLinksResults) :
        LET pid == pids[idx]
            fd == scan_pid_open_fd_file(links, target_id[1])
            log1 == Append(reads, Read("read_fd_links_access", pid, links))
        IN  CASE fd.tag = "Ok" /\ fd.val ->
                   \E c \in Answers("read_comm_access", pids[idx], CommResults) :
                       whyopen_path_mmap(pid, FALSE, << "open fd" >>,
                                         Some(read_comm_best_effort(c)),
                                         Append(log1, Read("read_comm_access", pid, c)))
              [] fd.tag = "Ok" /\ ~fd.val -> whyopen_path_mmap(pid, FALSE, << >>, None, log1)
              [] fd.tag = "PermissionDenied" -> whyopen_path_mmap(pid, TRUE, << >>, None, log1)
              [] fd.tag = "Gone" -> NextPid(holders, skipped_permission_denied, log1)
              [] OTHER -> Return("Fatal", log1)

\* whyopen_path, whyopen_port after the loop: the results are printed
whyopen_print ==
    /\ mode \in { "whyopen_path", "whyopen_port" }
    /\ pc = "scan"
    /\ idx > Len(pids)
    /\ pc' = "done"
    /\ result' = "Ok"
    /\ out' = << ResultBody(ProcResultRows(holders), Cardinality(skipped_permission_denied)) >>
    /\ UNCHANGED << args, target, found, pids, idx, reads >>

\* the inodes of all entries of socks, whatever their port
InodesOfAnyPort(socks, p) == { socks[i].inode : i \in 1..Len(socks) }

\* the inodes of the tcp entries of socks with the local port p
InodesOfTcpPort(socks, p) ==
    { socks[i].inode : i \in { j \in 1..Len(socks) :
                                   socks[j].local_port = p /\ socks[j].proto = "Tcp" } }

\* the inodes of the entries of socks with the local port p
InodesOfPort(socks, p) ==
    { socks[i].inode : i \in { j \in 1..Len(socks) : socks[j].local_port = p } }

\* whoholds_port up to the loop: the inodes of the port; none ends the pass
whoholds_port_begin ==
    /\ mode = "whoholds_port"
    /\ pc = "begin"
    /\ \E socks \in Answers("read_proc_net_sockets", 0, SocketsResults) :
        LET log == Append(reads, Read("read_proc_net_sockets", 0, socks))
        IN  IF ~socks.ok THEN Return("Fatal", log)
            ELSE /\ sockets' = socks.val
                 /\ target_inodes' = InodesOfPort(socks.val, port)
                 /\ UNCHANGED << target_id, target_dev, inode_to_labels >>
                 /\ IF InodesOfPort(socks.val, port) = {}
                    THEN /\ pc' = "done"
                         /\ result' = "Ok"
                         /\ out' = << ResultBody(HolderRows(holders),
                                                 Cardinality(skipped_permission_denied)) >>
                         /\ reads' = log
                         /\ UNCHANGED << args, found, pids, idx >>
                    ELSE ListPids(log)

\* whoholds_port: one iteration of the loop over pids
whoholds_port_pid ==
    /\ mode = "whoholds_port"
    /\ pc = "scan"
    /\ idx <= Len(pids)
    /\ \E links \in Answers("read_fd_links_access", pids[idx], FdLinksResults) :
        LET pid == pids[idx]
            fd == scan_pid_open_fd_socket(links, target_inodes)
            log1 == Append(reads, Read("read_fd_links_access", pid, links))
        IN  CASE fd.tag = "Ok" /\ fd.val ->
                   \E c \in Answers("read_comm_access", pids[idx], CommResults) :
                       NextPid(BTreeInsert(holders, pid, << "OpenFd", read_comm_best_effort(c) >>),
                               skipped_permission_denied,
                               Append(log1, Read("read_comm_access", pid, c)))
              [] fd.tag = "Ok" /\ ~fd.val -> NextPid(holders, skipped_permission_denied, log1)
              [] fd.tag = "PermissionDenied" ->
                   NextPid(holders, skipped_permission_denied \cup { pid }, log1)
              [] fd.tag = "Gone" -> NextPid(holders, skipped_permission_denied, log1)
              [] OTHER -> Return("Fatal", log1)

\* whyopen_port: the labels of the entries of socks with the local port p, by
\* inode, in the order of the entries
RECURSIVE LabelsByInode(_, _)
LabelsByInode(socks, p) ==
    IF Len(socks) = 0 THEN EmptyMap
    ELSE LET m == LabelsByInode(SubSeq(socks, 1, Len(socks) - 1), p)
             e == socks[Len(socks)]
             label == "socket " \o proto_label(e.proto) \o " "
                          \o socket_state_label(e.proto, e.state)
         IN  IF e.local_port # p THEN m
             ELSE MapPut(m, e.inode,
                         Append(IF e.inode \in DOMAIN m THEN m[e.inode] ELSE << >>, label))

\* whyopen_port up to the loop: the labels and inodes of the port; none ends the pass
whyopen_port_begin ==
    /\ mode = "whyopen_port"
    /\ pc = "begin"
    /\ \E socks \in Answers("read_proc_net_sockets", 0, SocketsResults) :
        LET log == Append(reads, Read("read_proc_net_sockets", 0, socks))
        IN  IF ~socks.ok THEN Return("Fatal", log)
            ELSE /\ sockets' = socks.val
                 /\ inode_to_labels' = LabelsByInode(socks.val, port)
                 /\ target_inodes' = DOMAIN LabelsByInode(socks.val, port)
                 /\ UNCHANGED << target_id, target_dev >>
                 /\ IF DOMAIN LabelsByInode(socks.val, port) = {}
                    THEN /\ pc' = "done"
                         /\ result' = "Ok"
                         /\ out' = << ResultBody(ProcResultRows(holders), 0) >>
                         /\ reads' = log
                         /\ UNCHANGED << args, found, pids, idx >>
                    ELSE ListPids(log)

\* the inodes of the links that are sockets of the target set, in the order of
\* the links
RECURSIVE MatchedInodes(_, _)
MatchedInodes(links, inodes) ==
    IF Len(links) = 0 THEN << >>
    ELSE LET inode == parse_socket_inode(Head(links).link)
         IN  (IF IsSome(inode) /\ inode[1] \in inodes THEN << inode[1] >> ELSE << >>)
             \o MatchedInodes(Tail(links), inodes)

\* whyopen_port: the reasons the matched inodes add, in their order
RECURSIVE ReasonsOf(_, _)
ReasonsOf(matched, labels) ==
    IF Len(matched) = 0 THEN << >>
    ELSE (IF Head(matched) \in DOMAIN labels THEN labels[Head(matched)] ELSE << "socket" >>)
         \o ReasonsOf(Tail(matched), labels)

\* whyopen_port: one iteration of the loop over pids
whyopen_port_pid ==
    /\ mode = "whyopen_port"
    /\ pc = "scan"
    /\ idx <= Len(pids)
    /\ \E links \in Answers("read_fd_links_access", pids[idx], FdLinksResults) :
        LET pid == pids[idx]
            log1 == Append(reads, Read("read_fd_links_access", pid, links))
        IN  CASE links.tag = "PermissionDenied" ->
                   NextPid(holders, skipped_permission_denied \cup { pid }, log1)
              [] links.tag = "Gone" -> NextPid(holders, skipped_permission_denied, log1)
              [] links.tag = "Fatal" -> Return("Fatal", log1)
              [] OTHER ->
                   LET matched == MatchedInodes(links.val, target_inodes)
                   IN  IF Len(matched) = 0
                       THEN whyopen_record(pid, FALSE, << >>, None, log1)
                       ELSE \E c \in Answers("read_comm_access", pids[idx], CommResults) :
                                whyopen_record(pid, FALSE, ReasonsOf(matched, inode_to_labels),
                                               Some(read_comm_best_effort(c)),
                                               Append(log1, Read("read_comm_access", pid, c)))

\* a filter that keeps every socket in state 0x01 under --established
retained_any_established(s, listen, estab) ==
    IF listen
    THEN IF s.proto \in { "Tcp", "Tcp6" } THEN s.state = 10
         ELSE s.state = 7
    ELSE IF estab THEN s.state = 1
    ELSE TRUE

\* whoholds_ports: sockets.retain(..) under --listening / --established
retained(s, listen, estab) ==
    IF listen
    THEN IF s.proto \in { "Tcp", "Tcp6" } THEN s.state = 10
         ELSE IF s.proto \in { "Udp", "Udp6" } THEN s.state = 7
         ELSE FALSE
    ELSE IF estab THEN s.proto \in { "Tcp", "Tcp6" } /\ s.state = 1
    ELSE TRUE

\* whoholds_ports up to the loop: the sockets kept and their inodes; none ends
\* the pass
whoholds_ports_begin ==
    /\ mode = "whoholds_ports"
    /\ pc = "begin"
    /\ \E socks \in Answers("read_proc_net_sockets", 0, SocketsResults) :
        LET log == Append(reads, Read("read_proc_net_sockets", 0, socks))
        IN  IF ~socks.ok THEN Return("Fatal", log)
            ELSE LET kept == SelectSeq(socks.val, LAMBDA e : retained(e, listening, established))
                 IN  /\ sockets' = kept
                     /\ target_inodes' = { kept[i].inode : i \in 1..Len(kept) }
                     /\ UNCHANGED << target_id, target_dev, inode_to_labels >>
                     /\ IF Len(kept) = 0
                        THEN /\ pc' = "done"
                             /\ result' = "Ok"
                             /\ out' = << ResultBody(<< >>, Cardinality(skipped_permission_denied)) >>
                             /\ reads' = log
                             /\ UNCHANGED << args, found, pids, idx >>
                        ELSE ListPids(log)

\* whoholds_ports: inode_to_pids.entry(inode).or_default().push(pid) for each
\* matched inode
RECURSIVE PushPid(_, _, _)
PushPid(m, matched, pid) ==
    IF Len(matched) = 0 THEN m
    ELSE LET inode == Head(matched)
         IN  PushPid(MapPut(m, inode,
                            Append(IF inode \in DOMAIN m THEN m[inode] ELSE << >>, pid)),
                     Tail(matched), pid)

\* the end of one iteration of the loop over pids of the ports listing
NextPidPorts(by_inode, cache, skipped, log) ==
    /\ idx' = idx + 1
    /\ inode_to_pids' = by_inode
    /\ comm_cache' = cache
    /\ skipped_permission_denied' = skipped
    /\ reads' = log
    /\ UNCHANGED << args, target, holders, pc, pids, result, out >>

\* whoholds_ports: one iteration of the loop over pids
whoholds_ports_pid ==
    /\ mode = "whoholds_ports"
    /\ pc = "scan"
    /\ idx <= Len(pids)
    /\ \E links \in Answers("read_fd_links_access", pids[idx], FdLinksResults) :
        LET pid == pids[idx]
            log1 == Append(reads, Read("read_fd_links_access", pid, links))
        IN  CASE links.tag = "PermissionDenied" ->
                   NextPidPorts(inode_to_pids, comm_cache,
                                skipped_permission_denied \cup { pid }, log1)
              [] links.tag = "Gone" ->
                   NextPidPorts(inode_to_pids, comm_cache, skipped_permission_denied, log1)
              [] links.tag = "Fatal" -> Return("Fatal", log1)
              [] OTHER ->
                   LET matched == MatchedInodes(links.val, target_inodes)
                   IN  IF Len(matched) = 0 \/ pid \in DOMAIN comm_cache
                       THEN NextPidPorts(PushPid(inode_to_pids, matched, pid), comm_cache,
                                         skipped_permission_denied, log1)
                       ELSE \E c \in Answers("read_comm_access", pids[idx], CommResults) :
                                NextPidPorts(PushPid(inode_to_pids, matched, pid),
                                             MapPut(comm_cache, pid, read_comm_best_effort(c)),
                                             skipped_permission_denied,
                                             Append(log1, Read("read_comm_access", pid, c)))

\* whoholds_ports: the rows of one socket, one per pid of its (sorted,
\* deduplicated) pid list
RowsOfSocket(s, by_inode, cache) ==
    IF s.inode \notin DOMAIN by_inode THEN << >>
    ELSE LET ps == Dedup(SortInts(by_inode[s.inode]))
         IN  [i \in 1..Len(ps) |->
                 [port |-> s.local_port,
                  proto |-> proto_label_and_sort(s.proto)[1],
                  proto_sort |-> proto_label_and_sort(s.proto)[2],
                  pid |-> ps[i],
                  command |-> IF ps[i] \in DOMAIN cache THEN cache[ps[i]] ELSE "<unknown>",
                  state |-> socket_state_label(s.proto, s.state)]]

RECURSIVE RowsOfSockets(_, _, _)
RowsOfSockets(socks, by_inode, cache) ==
    IF Len(socks) = 0 THEN << >>
    ELSE RowsOfSocket(Head(socks), by_inode, cache)
         \o RowsOfSockets(Tail(socks), by_inode, cache)

\* (a.port, a.proto_sort, a.pid) < (b.port, b.proto_sort, b.pid)
RowLess(a, b) ==
    \/ a.port < b.port
    \/ a.port = b.port /\ a.proto_sort < b.proto_sort
    \/ a.port = b.port /\ a.proto_sort = b.proto_sort /\ a.pid < b.pid

RowSame(a, b) ==
    a.port = b.port /\ a.proto_sort = b.proto_sort /\ a.pid = b.pid /\ a.state = b.state

\* whoholds_ports: the rows printed: built, sorted, deduplicated
PortRows(socks, by_inode, cache) ==
    DedupBy(StableSort(RowsOfSockets(socks, by_inode, cache), RowLess), RowSame)

\* whoholds_ports after the loop: the rows are printed
whoholds_ports_print ==
    /\ mode = "whoholds_ports"
    /\ pc = "scan"
    /\ idx > Len(pids)
    /\ pc' = "done"
    /\ result' = "Ok"
    /\ out' = << ResultBody(PortRows(sockets, inode_to_pids, comm_cache),
                            Cardinality(skipped_permission_denied)) >>
    /\ UNCHANGED << args, target, found, pids, idx, reads >>

Next ==
    \/ path_begin
    \/ whoholds_path_pid
    \/ whoholds_print
    \/ whyopen_path_pid
    \/ whyopen_print
    \/ whoholds_port_begin
    \/ whoholds_port_pid
    \/ whyopen_port_begin
    \/ whyopen_port_pid
    \/ whoholds_ports_begin
    \/ whoholds_ports_pid
    \/ whoholds_ports_print

Spec == Init /\ [][Next]_vars

(***************************************************************************)
(* The tool run a second time, with the same arguments, on a system that   *)
(* has not changed.                                                        *)
(***************************************************************************)
\* a cache that outlives the pass: what the pass before left in it
comm_cache_kept(left) == left

\* whoholds_ports: let mut comm_cache = HashMap::new(), whatever the pass
\* before left
comm_cache_new(left) == EmptyMap

\* main run again after a finished pass: every collection of the pass starts
\* empty; what the first pass read and gave is kept for comparison
again ==
    /\ pc = "done"
    /\ earlier = None
    /\ earlier' = Some([reads |-> reads, result |-> result, out |-> out,
                        holders |-> holders,
                        skipped |-> Cardinality(skipped_permission_denied)])
    /\ pc' = "begin"
    /\ target_id' = None
    /\ target_dev' = None
    /\ sockets' = << >>
    /\ target_inodes' = {}
    /\ inode_to_labels' = EmptyMap
    /\ pids' = << >>
    /\ idx' = 1
    /\ holders' = << >>
    /\ inode_to_pids' = EmptyMap
    /\ comm_cache' = comm_cache_new(comm_cache)
    /\ skipped_permission_denied' = {}
    /\ result' = "running"
    /\ out' = << >>
    /\ reads' = << >>
    /\ UNCHANGED << mode, port, listening, established, call, ret >>

NextTwice == Next \/ again

SpecTwice == Init /\ [][NextTwice]_vars

(***************************************************************************)
(* The other tool run on the path after a finished pass of the one, on a   *)
(* system that has not changed.                                            *)
(***************************************************************************)
\* main of whyopen after a pass of whoholds over a path, or of whoholds after
\* one of whyopen: every collection of the pass starts empty; what the first
\* pass read and gave is kept for comparison
other_tool ==
    /\ pc = "done"
    /\ earlier = None
    /\ mode \in PathModes
    /\ mode' = IF mode = "whoholds_path" THEN "whyopen_path" ELSE "whoholds_path"
    /\ earlier' = Some([reads |-> reads, result |-> result, out |-> out,
                        holders |-> holders,
                        skipped |-> Cardinality(skipped_permission_denied)])
    /\ pc' = "begin"
    /\ target_id' = None
    /\ target_dev' = None
    /\ sockets' = << >>
    /\ target_inodes' = {}
    /\ inode_to_labels' = EmptyMap
    /\ pids' = << >>
    /\ idx' = 1
    /\ holders' = << >>
    /\ inode_to_pids' = EmptyMap
    /\ comm_cache' = EmptyMap
    /\ skipped_permission_denied' = {}
    /\ result' = "running"
    /\ out' = << >>
    /\ reads' = << >>
    /\ UNCHANGED << port, listening, established, call, ret >>

NextBoth == Next \/ other_tool

SpecBoth == Init /\ [][NextBoth]_vars

(***************************************************************************)
(* The functions of the libraries called on their own, each on one input.  *)
(***************************************************************************)
\* /proc/<pid>/maps whose second line cannot be read
MapsBroken ==
    { << Line("00400000-0040b000 r-xp 00000000 08:01 7 /data/a"), IoErr(k) >> :
        k \in IoErrorKinds }

\* Duration, and Duration::as_secs: the whole seconds
Duration(secs, nanos) == [secs |-> secs, nanos |-> nanos]
as_secs(d) == d.secs

\* a formatting with the thresholds one second late
format_duration_ago_late(d) ==
    LET secs == as_secs(d)
    IN  IF secs <= 60 THEN format_decimal(secs) \o "s ago"
        ELSE IF secs <= 60 * 60 THEN format_decimal(secs \div 60) \o "m ago"
        ELSE IF secs <= 60 * 60 * 24 THEN format_decimal(secs \div (60 * 60)) \o "h ago"
        ELSE format_decimal(secs \div (60 * 60 * 24)) \o "d ago"

\* fsmeta::format_duration_ago
format_duration_ago(d) ==
    LET secs == as_secs(d)
    IN  IF secs < 60 THEN format_decimal(secs) \o "s ago"
        ELSE IF secs < 60 * 60 THEN format_decimal(secs \div 60) \o "m ago"
        ELSE IF secs < 60 * 60 * 24 THEN format_decimal(secs \div (60 * 60)) \o "h ago"
        ELSE format_decimal(secs \div (60 * 60 * 24)) \o "d ago"

\* the ages format_duration_ago is called on: whole seconds around each
\* threshold, with and without a fraction of a second
SecsSamples ==
    { 0, 1, 5, 9, 10, 59, 60, 61, 119, 120, 599, 3599, 3600, 3601, 7199, 7200,
      86399, 86400, 86401, 172799, 172800, 8640000, 2147483647 }
DurationSamples == { Duration(s, n) : s \in SecsSamples, n \in { 0, 999999999 } }

\* a u64 below 2^30 as its bits, and a u64 shifted left
U64Of(n) == [i \in 0..63 |-> IF i < 30 THEN (n \div Pow2(i)) % 2 ELSE 0]
Shl(a, n) == [i \in 0..63 |-> IF i >= n THEN a[i - n] ELSE 0]

\* the kernel's packing of a device number:
\* (minor & 0xff) | (major << 8) | ((minor & ~0xff) << 12)
Pack(major, minor) ==
    BitOr(BitOr(U64Of(minor % 256), Shl(U64Of(major), 8)),
          Shl(U64Of(minor - (minor % 256)), 12))

\* majors of 0..4095 and minors of 0..2^20-1
MajorSamples == { 0, 1, 8, 15, 16, 255, 259, 2730, 4095 }
MinorSamples == { 0, 1, 255, 256, 257, 65535, 699050, 1048575 }

\* the st_dev values dev_major_minor is called on
DevSamples ==
    { U64Hex(h) : h \in { "0000000000000801", "0000000000100800", "ffffffffffffffff",
                          "00000fffffffffff", "fffff000000000ff", "0123456789abcdef",
                          "00000ff0000ff000", "8000000000000000" } }
    \cup { Pack(major, minor) : major \in MajorSamples, minor \in MinorSamples }

\* ProcNetProto
ProcNetProtos == { "Tcp", "Tcp6", "Udp", "Udp6" }

\* the tables parse_proc_net_file is called on: the table of the crate's
\* test, a table whose first line is a data line, lines with nine and with ten
\* fields, fields that do not parse, empty tables, lines that fail to be read
NetFiles ==
    { << NetHeader, NetLine("0100007F:0035", "0A", "46743") >>,
      << NetLine("0100007F:0050", "01", "7"), NetLine("0100007F:3500", "0A", "12") >>,
      << NetHeader,
         Line("   0: 00000000:0035 00000000:0000 07 a b c d e"),
         Line("   1: 00000000:0044 00000000:0000 07 a b c d e 15"),
         NetLine("00000000:zz35", "07", "9"),
         NetLine("000000000035", "07", "9"),
         NetLine("00000000:0035", "1FF", "9"),
         NetLine("00000000:10035", "07", "9"),
         NetLine("00000000:0035", "07", "x9"),
         NetLine("00000000:+35", "+7", "+9"),
         NetLine("00000000:FFFF", "ff", "0") >>,
      << NetHeader >>,
      << >> }
    \cup { << NetHeader, NetLine("0100007F:0035", "0A", "7"), IoErr(k) >> :
             k \in IoErrorKinds }
    \cup { << IoErr(k), NetLine("0100007F:0035", "0A", "7") >> : k \in IoErrorKinds }
NetFileIo == { IoOk(f) : f \in NetFiles } \cup { IoErr(k) : k \in IoErrorKinds }

\* the /proc/net read_proc_net_sockets is called on: the tables of the passes,
\* and tables of which one ends in a line that fails to be read
NetBrokenIo ==
    { [tcp |-> IoOk(<< NetHeader, NetLine("0100007F:0035", "0A", "7"), IoErr(k) >>),
       tcp6 |-> IoOk(<< NetHeader, NetLine("00000000000000000000000000000000:0050", "0A", "8") >>),
       udp |-> IoErr(k),
       udp6 |-> IoOk(<< NetHeader, NetLine("00000000000000000000000000000000:0044", "07", "9") >>)] :
        k \in IoErrorKinds }

\* the /proc list_pids is called on: names procfs holds, one directory per pid
\* (pids of one and of two digits) and entries that are no pid, any of them
\* present, in any order; or the listing, or one entry of it, failing
ProcNames == { "1", "9", "10", "self", "net" }
ProcListings ==
    { IoOk(a) : a \in UNION { Arrangements({ DirEntry(n) : n \in N }) : N \in SUBSET ProcNames } }
    \cup { IoErr(k) : k \in IoErrorKinds }
    \cup { IoOk(<< DirEntry("9"), IoErr(k), DirEntry("1") >>) : k \in IoErrorKinds }

\* the targets scan_pid_mmap_file is called with: (major, minor, inode) of
\* files the mappings hold, of files they do not, and with inode 0
MmapTargets ==
    { << U32Of(8), U32Of(1), 7 >>, << U32Of(8), U32Of(1), 9 >>, << U32Of(9), U32Of(1), 7 >>,
      << U32Of(8), U32Of(256), 7 >>, << U32Of(8), U32Of(256), 0 >>, << U32Of(0), U32Of(0), 0 >>,
      << U32Of(8), U32Of(1), 0 >>, << U32Of(8), U32Of(2), 7 >> }

\* the state of a process that only calls library functions
NoPass ==
    /\ mode = "lib"
    /\ port = 0
    /\ listening = FALSE
    /\ established = FALSE
    /\ pc = "done"
    /\ target_id = None
    /\ target_dev = None
    /\ sockets = << >>
    /\ target_inodes = {}
    /\ inode_to_labels = EmptyMap
    /\ pids = << >>
    /\ idx = 1
    /\ holders = << >>
    /\ inode_to_pids = EmptyMap
    /\ comm_cache = EmptyMap
    /\ skipped_permission_denied = {}
    /\ result = "Ok"
    /\ out = << >>
    /\ reads = << >>
    /\ earlier = None

InitFn ==
    /\ NoPass
    /\ ret = None
    /\ \/ \E file \in CommIo : call = << "read_comm_access", file >>
       \/ \E dir \in FdDirIo : call = << "read_fd_links_access", dir >>
       \/ \E file \in MapsIo \cup { IoOk(f) : f \in MapsBroken } :
            call = << "read_proc_maps_access", file >>
       \/ \E dev \in DevSamples : call = << "dev_major_minor", dev >>
       \/ \E d \in DurationSamples : call = << "format_duration_ago", d >>
       \/ \E file \in NetFileIo, proto \in ProcNetProtos :
            call = << "parse_proc_net_file", << file, proto >> >>
       \/ \E net \in NetIo \cup NetBrokenIo : call = << "read_proc_net_sockets", net >>
       \/ \E dir \in ProcListings : call = << "list_pids", dir >>
       \/ \E maps \in MapsResults, t \in MmapTargets :
            call = << "scan_pid_mmap_file", << maps, t[1], t[2], t[3] >> >>

\* the call returns v
Returns(v) ==
    /\ ret = None
    /\ ret' = Some(v)
    /\ UNCHANGED << mode, port, listening, established, earlier, call,
                    target, found, pc, pids, idx, result, out, reads >>

call_read_comm_access ==
    /\ call[1] = "read_comm_access"
    /\ Returns(read_comm_access(call[2]))

call_read_fd_links_access ==
    /\ call[1] = "read_fd_links_access"
    /\ Returns(read_fd_links_access(call[2]))

call_read_proc_maps_access ==
    /\ call[1] = "read_proc_maps_access"
    /\ Returns(read_proc_maps_access(call[2]))

call_dev_major_minor ==
    /\ call[1] = "dev_major_minor"
    /\ Returns(dev_major_minor(call[2]))

call_format_duration_ago ==
    /\ call[1] = "format_duration_ago"
    /\ Returns(format_duration_ago(call[2]))

call_parse_proc_net_file ==
    /\ call[1] = "parse_proc_net_file"
    /\ Returns(parse_proc_net_file(call[2][1], call[2][2]))

call_read_proc_net_sockets ==
    /\ call[1] = "read_proc_net_sockets"
    /\ Returns(read_proc_net_sockets(call[2]))

call_list_pids ==
    /\ call[1] = "list_pids"
    /\ Returns(list_pids(call[2]))

call_scan_pid_mmap_file ==
    /\ call[1] = "scan_pid_mmap_file"
    /\ Returns(scan_pid_mmap_file(call[2][1], call[2][2], call[2][3], call[2][4]))

NextFn ==
    \/ call_read_comm_access
    \/ call_read_fd_links_access
    \/ call_read_proc_maps_access
    \/ call_dev_major_minor
    \/ call_format_duration_ago
    \/ call_parse_proc_net_file
    \/ call_read_proc_net_sockets
    \/ call_list_pids
    \/ call_scan_pid_mmap_file

SpecFn == InitFn /\ [][NextFn]_vars

(***************************************************************************)
(* What the properties below read off the state.                           *)
(***************************************************************************)
PerPidOps == { "read_fd_links_access", "read_proc_maps_access", "read_comm_access" }

\* the positions in reads of the reads of kind op
ReadsAt(op) == { i \in 1..Len(reads) : reads[i].op = op }

\* some read of kind op for pid p was answered with tag
Answered(op, p, tag) ==
    \E i \in ReadsAt(op) : reads[i].pid = p /\ reads[i].res.tag = tag

\* the pids of the holder collection, in its order
HolderPids == [i \in 1..Len(holders) |-> holders[i].key]

StrictlyAscending(s) == \A i \in 1..(Len(s) - 1) : s[i] < s[i + 1]

\* list_pids() failed
EnumerationFailed == \E i \in ReadsAt("list_pids") : ~reads[i].res.ok

(***************************************************************************)
(* C1.  whoholds path mode: a pid is in skipped_permission_denied only if  *)
(* both its descriptor read and its mapping read were answered             *)
(* PermissionDenied; a pid with only one of the two denied is not in it.   *)
(***************************************************************************)
C1_SkippedOnlyIfBothDenied ==
    mode = "whoholds_path" =>
        \A p \in skipped_permission_denied :
            /\ Answered("read_fd_links_access", p, "PermissionDenied")
            /\ Answered("read_proc_maps_access", p, "PermissionDenied")

\* a finished pass over two pids: one denied twice and counted, one denied
\* once (the descriptors only) and not counted
C1_Witness ==
    /\ mode = "whoholds_path"
    /\ pc = "done"
    /\ result = "Ok"
    /\ \E p, q \in SeqToSet(pids) :
        /\ p \in skipped_permission_denied
        /\ q \notin skipped_permission_denied
        /\ Answered("read_fd_links_access", q, "PermissionDenied")
        /\ Answered("read_proc_maps_access", q, "Ok")

(***************************************************************************)
(* C2.  whyopen path mode: a pid is in skipped_permission_denied only if   *)
(* both checks were denied; a pid whose descriptor check was denied and    *)
(* whose mapping check succeeded with no match is not counted.             *)
(***************************************************************************)
C2_WhyopenSkippedOnlyIfBothDenied ==
    mode = "whyopen_path" =>
        \A p \in skipped_permission_denied :
            /\ Answered("read_fd_links_access", p, "PermissionDenied")
            /\ Answered("read_proc_maps_access", p, "PermissionDenied")

(***************************************************************************)
(* C3.  Every pass: once a per-pid read (descriptors, mappings or command  *)
(* name) was answered Fatal, or the enumeration of the pids failed, no     *)
(* result body is emitted and the pass ends with a fatal error.            *)
(***************************************************************************)
C3_AnyFatalReadAborts ==
    ( \/ EnumerationFailed
      \/ \E op \in PerPidOps : \E i \in ReadsAt(op) : reads[i].res.tag = "Fatal" )
    => /\ out = << >>
       /\ pc = "done" => result = "Fatal"

\* the last read of the log
LastRead == reads[Len(reads)]

\* the last read is a descriptor or mapping read answered with tag
LastAnswered(tag) ==
    /\ Len(reads) > 0
    /\ LastRead.op \in { "read_fd_links_access", "read_proc_maps_access" }
    /\ LastRead.res.tag = tag

\* the position of pid p in the snapshot
PidIndex(p) == CHOOSE i \in 1..Len(pids) : pids[i] = p

(***************************************************************************)
(* C4.  Every mode: a pid whose descriptor read or mapping read was        *)
(* answered Gone is not in skipped_permission_denied, and that answer      *)
(* ends in no error: right after it the pass is past that pid, still       *)
(* running or finished with success.                                       *)
(***************************************************************************)
C4_GoneIsExcludedSilently ==
    /\ \A op \in { "read_fd_links_access", "read_proc_maps_access" } :
        \A i \in ReadsAt(op) :
            reads[i].res.tag = "Gone" => reads[i].pid \notin skipped_permission_denied
    /\ LastAnswered("Gone") =>
        /\ result \in { "running", "Ok" }
        /\ idx > PidIndex(LastRead.pid)
        /\ LastRead.pid \notin { holders[i].key : i \in 1..Len(holders) }

\* a finished pass in which the first pid was gone at a read and a later pid
\* was still examined
C4_Witness ==
    /\ pc = "done"
    /\ result = "Ok"
    /\ Len(pids) >= 2
    /\ \E op \in { "read_fd_links_access", "read_proc_maps_access" } :
        \E i \in ReadsAt(op) :
            /\ reads[i].res.tag = "Gone"
            /\ reads[i].pid = pids[1]
            /\ \E j \in ReadsAt("read_fd_links_access") : j > i /\ reads[j].pid = pids[2]

\* the scan helper applied to a logged read hands on every outcome but Ok
HandsOn(e) ==
    LET idShape == FileId("0000000000000801", 7)
    IN  e.res.tag # "Ok" =>
            IF e.op = "read_fd_links_access"
            THEN /\ scan_pid_open_fd_file(e.res, idShape) = e.res
                 /\ scan_pid_open_fd_socket(e.res, { 7 }) = e.res
            ELSE scan_pid_mmap_file(e.res, U32Of(8), U32Of(1), 7) = e.res

(***************************************************************************)
(* C5.  PermissionDenied never aborts a pass and is never turned into      *)
(* Fatal: a pass ends with an error only right after a failed resolution   *)
(* of the target, a failed enumeration, or a descriptor or mapping read    *)
(* answered Fatal; a pass that ended otherwise ended with success and, if  *)
(* it enumerated the pids, read the descriptors of every pid of the        *)
(* snapshot; and the scan helpers hand on PermissionDenied, Gone and Fatal *)
(* exactly as the underlying read answered.                                *)
(***************************************************************************)
C5_DeniedNeverAborts ==
    /\ ~LastAnswered("Fatal") /\ pc = "done" /\ Len(reads) > 0
       /\ LastRead.op \notin { "file_id_for_path", "list_pids" }
       => /\ result = "Ok"
          /\ ReadsAt("list_pids") # {} =>
                \A k \in 1..Len(pids) :
                    \E i \in ReadsAt("read_fd_links_access") : reads[i].pid = pids[k]
    /\ result \in { "Fatal", "InvalidInput" } =>
          \/ LastAnswered("Fatal")
          \/ LastRead.op \in { "file_id_for_path", "list_pids" } /\ ~LastRead.res.ok
    /\ \A op \in { "read_fd_links_access", "read_proc_maps_access" } :
          \A i \in ReadsAt(op) : HandsOn(reads[i])

\* a finished pass over two pids with a denied descriptor read for the
\* first and a denied mapping read somewhere
C5_Witness ==
    /\ pc = "done"
    /\ result = "Ok"
    /\ Len(pids) >= 2
    /\ Answered("read_fd_links_access", pids[1], "PermissionDenied")
    /\ \E k \in 1..Len(pids) : Answered("read_proc_maps_access", pids[k], "PermissionDenied")
    /\ \E i \in ReadsAt("read_fd_links_access") : reads[i].pid = pids[2]

\* read_proc_net_sockets() was called and succeeded
TablesRead == \E i \in ReadsAt("read_proc_net_sockets") : reads[i].res.ok

\* no entry of the socket tables read has the target port
PortUnused == \A i \in 1..Len(sockets) : sockets[i].local_port # port

(***************************************************************************)
(* C6.  Port mode: when the socket tables were read and no entry has the   *)
(* target port, the pass is over with success, an empty result and a       *)
(* skipped count of 0, and neither list_pids nor any per-pid read was      *)
(* made.                                                                   *)
(***************************************************************************)
C6_UnusedPortEndsBeforeScan ==
    mode \in PortModes /\ TablesRead /\ PortUnused
    => /\ pc = "done"
       /\ result = "Ok"
       /\ out = << [partial |-> FALSE, skipped |-> 0, partial_line |-> None,
                    results |-> << >>] >>
       /\ skipped_permission_denied = {}
       /\ \A i \in 1..Len(reads) : reads[i].op = "read_proc_net_sockets"

\* the port is unused although the tables list sockets of another port
C6_Witness ==
    /\ mode \in PortModes
    /\ pc = "done"
    /\ Len(sockets) > 0
    /\ PortUnused
    /\ out # << >>

\* the link names the socket of inode n
IsSocketLinkOf(link, n) == link = "socket:[" \o ToString(n) \o "]"

\* the inodes of the entries of the tables with the target port
InodesWanted == { sockets[i].inode : i \in { j \in 1..Len(sockets) : sockets[j].local_port = port } }

\* pid p had its descriptors read, and one of them is a socket of the set
HoldsSocketOf(p, inodes) ==
    \E i \in ReadsAt("read_fd_links_access") :
        /\ reads[i].pid = p
        /\ reads[i].res.tag = "Ok"
        /\ \E k \in 1..Len(reads[i].res.val) :
            \E n \in inodes : IsSocketLinkOf(reads[i].res.val[k].link, n)

(***************************************************************************)
(* C7.  Port mode: the target inode set is the set of the inodes of all    *)
(* entries of the four tables whose local port is the target port, and     *)
(* after a pass that ended with success a pid is a holder if and only if   *)
(* its descriptor read succeeded and one of its links is socket:[n] with n *)
(* in the target set.                                                      *)
(***************************************************************************)
C7_PortHolders ==
    mode \in PortModes =>
        /\ TablesRead => target_inodes = InodesWanted
        /\ pc = "done" /\ result = "Ok" =>
            /\ \A k \in 1..Len(pids) :
                pids[k] \in SeqToSet(HolderPids) <=> HoldsSocketOf(pids[k], InodesWanted)
            /\ SeqToSet(HolderPids) \subseteq SeqToSet(pids)
            /\ SeqToSet(HolderPids) = { out[1].results[i].pid : i \in 1..Len(out[1].results) }

\* a finished pass for a port with a tcp and a udp (or tcp6) socket, with a
\* pid that holds one and a pid that holds none
C7_Witness ==
    /\ mode \in PortModes
    /\ pc = "done"
    /\ result = "Ok"
    /\ Cardinality({ sockets[i].proto : i \in { j \in 1..Len(sockets) : sockets[j].local_port = port } }) >= 2
    /\ Cardinality(InodesWanted) >= 2
    /\ \E p, q \in SeqToSet(pids) :
        /\ p \in SeqToSet(HolderPids)
        /\ q \notin SeqToSet(HolderPids)
        /\ Answered("read_fd_links_access", q, "Ok")

\* the pids of the snapshot whose descriptor read was denied
DeniedPids == { p \in SeqToSet(pids) : Answered("read_fd_links_access", p, "PermissionDenied") }

(***************************************************************************)
(* C8.  Port mode and the ports listing: skipped_permission_denied is the  *)
(* set of the pids of the snapshot whose descriptor read was answered      *)
(* PermissionDenied, the count reported at the end is its size, and no     *)
(* mapping read is made.                                                   *)
(***************************************************************************)
C8_SkippedIsDeniedDescriptorReads ==
    mode \in PortModes \cup { "whoholds_ports" } =>
        /\ skipped_permission_denied = DeniedPids
        /\ ReadsAt("read_proc_maps_access") = {}
        /\ pc = "done" /\ result = "Ok" =>
            /\ out[1].skipped = Cardinality(DeniedPids)
            /\ out[1].partial = (Cardinality(DeniedPids) > 0)

\* a finished pass with two denied pids
C8_Witness ==
    /\ mode \in PortModes \cup { "whoholds_ports" }
    /\ pc = "done"
    /\ result = "Ok"
    /\ Cardinality(DeniedPids) = 2
    /\ out[1].skipped = 2

\* the positions in reads of the per-pid reads
PerPidReads == { i \in 1..Len(reads) : reads[i].op \in PerPidOps }

\* every per-pid read comes after the one enumeration, is for a pid of its
\* snapshot, and the pids are read in ascending order, none taken up again
ReadsFollowSnapshot ==
    /\ \A i \in PerPidReads :
        \E j \in ReadsAt("list_pids") :
            /\ j < i
            /\ reads[j].res.ok
            /\ reads[i].pid \in SeqToSet(reads[j].res.val)
            /\ reads[j].res.val = pids
    /\ \A i, j \in PerPidReads : i < j => reads[i].pid <= reads[j].pid
    /\ \A i, j \in ReadsAt("read_fd_links_access") : i < j => reads[i].pid < reads[j].pid
    /\ \A i \in PerPidReads :
        reads[i].op # "read_fd_links_access" =>
            \E j \in ReadsAt("read_fd_links_access") : j < i /\ reads[j].pid = reads[i].pid

(***************************************************************************)
(* C9 as stated.  In every pass the pid list is enumerated exactly once,   *)
(* before any per-pid read (read here of the passes that end with          *)
(* success only), and every per-pid read is for a pid of that snapshot,    *)
(* each pid taken once, in ascending order.                                *)
(***************************************************************************)
C9_EnumeratedExactlyOnce ==
    /\ pc = "done" /\ result = "Ok" => Cardinality(ReadsAt("list_pids")) = 1
    /\ ReadsFollowSnapshot

(***************************************************************************)
(* C9, amended.  The pid list is enumerated at most once in a pass, and    *)
(* exactly once, before any per-pid read, in every pass that reaches the   *)
(* scan; a pass that ends before the scan (the target cannot be resolved,  *)
(* no socket has the port, no socket is left to list) does not enumerate   *)
(* it.  Every per-pid read is for a pid of that snapshot, each pid taken   *)
(* once, in ascending order.                                               *)
(***************************************************************************)
C9_EnumeratedOnceWhenScanning ==
    /\ Cardinality(ReadsAt("list_pids")) <= 1
    /\ pc = "scan" \/ PerPidReads # {} => Cardinality(ReadsAt("list_pids")) = 1
    /\ pc = "done" /\ ReadsAt("list_pids") = {} =>
          \/ result \in { "Fatal", "InvalidInput" } /\ ~LastRead.res.ok
          \/ mode \in PortModes /\ result = "Ok" /\ PortUnused
          \/ mode = "whoholds_ports" /\ result = "Ok" /\ sockets = << >>
    /\ ReadsFollowSnapshot

\* a finished pass over two pids, both read, the second after the first
C9_Witness ==
    /\ pc = "done"
    /\ result = "Ok"
    /\ Len(pids) = 2
    /\ \E i, j \in ReadsAt("read_fd_links_access") :
        i < j /\ reads[i].pid = pids[1] /\ reads[j].pid = pids[2]
    /\ ReadsAt("read_comm_access") # {}

\* the reasons of a record of whyopen: sorted, none twice
ReasonsSortedUnique(reasons) ==
    \A i \in 1..(Len(reasons) - 1) : StrLess(reasons[i], reasons[i + 1])

(***************************************************************************)
(* C10.  In every state of a pass over a target, and in its result, the    *)
(* holder collection has at most one record per pid, in ascending pid      *)
(* order; in whyopen the reasons of each record are sorted ascending and   *)
(* none occurs twice.                                                      *)
(***************************************************************************)
C10_HoldersKeyedAndOrdered ==
    /\ StrictlyAscending(HolderPids)
    /\ mode \in { "whyopen_path", "whyopen_port" } =>
        \A i \in 1..Len(holders) :
            /\ holders[i].value.pid = holders[i].key
            /\ holders[i].value.reasons # << >>
            /\ ReasonsSortedUnique(holders[i].value.reasons)
    /\ mode # "whoholds_ports" /\ pc = "done" /\ result = "Ok" =>
        /\ [i \in 1..Len(out[1].results) |-> out[1].results[i].pid] = HolderPids
        /\ mode \in { "whyopen_path", "whyopen_port" } =>
            \A i \in 1..Len(holders) : out[1].results[i].reasons = holders[i].value.reasons

\* a result of whyopen with two records, one of them with two reasons
C10_Witness ==
    /\ mode \in { "whyopen_path", "whyopen_port" }
    /\ pc = "done"
    /\ result = "Ok"
    /\ Len(out[1].results) = 2
    /\ \E i \in 1..2 : Len(out[1].results[i].reasons) >= 2

\* file_id_for_path(path) failed with an error of kind k
TargetFailed(k) ==
    /\ Len(reads) > 0
    /\ reads[1].op = "file_id_for_path"
    /\ ~reads[1].res.ok
    /\ reads[1].res.kind = k

(***************************************************************************)
(* C11.  Path mode: when the identity of the target path cannot be read,   *)
(* the outcome is InvalidInput with exit code 1 if the error is NotFound   *)
(* and Fatal with exit code 2 for every other error; the pid list is not   *)
(* enumerated, no other read is made and no result body is emitted.        *)
(***************************************************************************)
C11_UnresolvedPathEndsThePass ==
    \A k \in IoErrorKinds :
        mode \in PathModes /\ TargetFailed(k) =>
            /\ pc = "done"
            /\ k = "NotFound" => result = "InvalidInput" /\ exit_code(result) = 1
            /\ k # "NotFound" => result = "Fatal" /\ exit_code(result) = 2
            /\ Len(reads) = 1
            /\ pids = << >>
            /\ out = << >>

\* a pass over a path that does not exist
C11_Witness ==
    /\ mode \in PathModes
    /\ TargetFailed("NotFound")
    /\ result = "InvalidInput"

\* every pid whose descriptor read was answered Ok or PermissionDenied also
\* had its mappings read
MappingsReadToo ==
    \A i \in ReadsAt("read_fd_links_access") :
        reads[i].res.tag \in { "Ok", "PermissionDenied" } =>
            \E j \in ReadsAt("read_proc_maps_access") : j > i /\ reads[j].pid = reads[i].pid

(***************************************************************************)
(* C12.  Path mode: the descriptor check and the mapping check are         *)
(* independent: for every pid whose descriptor check ended Ok (match or no *)
(* match) or PermissionDenied the mapping check is made as well.           *)
(***************************************************************************)
C12_BothChecksMade ==
    mode \in PathModes => MappingsReadToo

PrintedRows == out[1].results

\* (port, protocol with tcp before udp, pid) of row a is not after that of b
RowNotAfter(a, b) ==
    LET rank(r) == IF r.proto = "tcp" THEN 0 ELSE 1
    IN  \/ a.port < b.port
        \/ a.port = b.port /\ rank(a) < rank(b)
        \/ a.port = b.port /\ rank(a) = rank(b) /\ a.pid <= b.pid

(***************************************************************************)
(* C14.  Ports listing: the rows printed are in nondecreasing order of     *)
(* (port, protocol with tcp before udp, pid), and no two of them have the  *)
(* same (port, protocol, pid, state).                                      *)
(***************************************************************************)
C14_RowsSortedAndDistinct ==
    mode = "whoholds_ports" /\ pc = "done" /\ result = "Ok" =>
        /\ \A i \in 1..(Len(PrintedRows) - 1) : RowNotAfter(PrintedRows[i], PrintedRows[i + 1])
        /\ \A i, j \in 1..Len(PrintedRows) :
            i # j => ~( /\ PrintedRows[i].port = PrintedRows[j].port
                        /\ PrintedRows[i].proto = PrintedRows[j].proto
                        /\ PrintedRows[i].pid = PrintedRows[j].pid
                        /\ PrintedRows[i].state = PrintedRows[j].state )

\* the socket entries read_proc_net_sockets() returned to this pass
TableRead == reads[CHOOSE i \in ReadsAt("read_proc_net_sockets") : TRUE].res.val

IsTcp(s) == s.proto \in { "Tcp", "Tcp6" }
IsUdp(s) == s.proto \in { "Udp", "Udp6" }

\* the socket may produce rows under the filter of this pass
Eligible(s) ==
    IF listening THEN (IsTcp(s) /\ s.state = 10) \/ (IsUdp(s) /\ s.state = 7)
    ELSE IF established THEN IsTcp(s) /\ s.state = 1
    ELSE TRUE

\* row r is a row of socket s and a pid that holds it
RowOf(r, s) ==
    /\ r.port = s.local_port
    /\ r.proto = (IF IsTcp(s) THEN "tcp" ELSE "udp")
    /\ r.state = socket_state_label(s.proto, s.state)
    /\ HoldsSocketOf(r.pid, { s.inode })

(***************************************************************************)
(* C15.  Ports listing: a row is printed only for a socket that is         *)
(* eligible under the filter (listening: tcp/tcp6 in state 0x0A or         *)
(* udp/udp6 in state 0x07; established: tcp/tcp6 in state 0x01; no filter: *)
(* every socket), and every eligible socket held by a pid whose            *)
(* descriptors were read has its row; so under the listening filter every  *)
(* row has the state label listening, under the established filter         *)
(* established.  The two filters are never both set.                       *)
(***************************************************************************)
C15_FiltersDecideRows ==
    /\ ~(listening /\ established)
    /\ mode = "whoholds_ports" /\ pc = "done" /\ result = "Ok" =>
        /\ \A i \in 1..Len(PrintedRows) :
            /\ \E k \in 1..Len(TableRead) :
                Eligible(TableRead[k]) /\ RowOf(PrintedRows[i], TableRead[k])
            /\ listening => PrintedRows[i].state = "listening"
            /\ established => PrintedRows[i].state = "established"
        /\ \A k \in 1..Len(TableRead) : \A p \in SeqToSet(pids) :
            Eligible(TableRead[k]) /\ HoldsSocketOf(p, { TableRead[k].inode }) =>
                \E i \in 1..Len(PrintedRows) :
                    PrintedRows[i].pid = p /\ RowOf(PrintedRows[i], TableRead[k])

\* a listing under --established with a row, made of tables that hold a udp
\* socket in state 0x01 that a pid of the snapshot holds
C15_Witness ==
    /\ mode = "whoholds_ports"
    /\ established
    /\ pc = "done"
    /\ result = "Ok"
    /\ Len(PrintedRows) > 0
    /\ \E k \in 1..Len(TableRead) : \E p \in SeqToSet(pids) :
        /\ IsUdp(TableRead[k])
        /\ TableRead[k].state = 1
        /\ HoldsSocketOf(p, { TableRead[k].inode })

\* the call is of the function fn and has returned
Called(fn) == call # None /\ call[1] = fn /\ IsSome(ret)

\* the outcome the kind of an I/O error stands for
Classified(kind) ==
    CASE kind = "NotFound" -> [tag |-> "Gone"]
      [] kind = "PermissionDenied" -> [tag |-> "PermissionDenied"]
      [] OTHER -> [tag |-> "Fatal"]

\* the errors that end the read a wrapper makes: of opening the file or
\* directory, or (the mappings) of reading a line of it
FailuresOf(fn, io) ==
    IF ~io.ok THEN << io.kind >>
    ELSE IF fn = "read_proc_maps_access"
    THEN LET bad == SelectSeq(io.val, LAMBDA l : ~l.ok)
         IN  [i \in 1..Len(bad) |-> bad[i].kind]
    ELSE << >>

(***************************************************************************)
(* C16.  read_comm_access, read_fd_links_access and read_proc_maps_access  *)
(* return one of Ok, PermissionDenied, Gone, Fatal: Ok when the underlying *)
(* read succeeds, and when it fails the outcome of the kind of its error:  *)
(* NotFound gives Gone (so a pid that does not exist gives Gone),          *)
(* PermissionDenied gives PermissionDenied, every other kind Fatal.        *)
(***************************************************************************)
C16_WrappersClassify ==
    \A fn \in PerPidOps :
        Called(fn) =>
            LET failures == FailuresOf(fn, call[2])
            IN  /\ ret[1].tag \in { "Ok", "PermissionDenied", "Gone", "Fatal" }
                /\ failures = << >> => ret[1].tag = "Ok"
                /\ failures # << >> => ret[1] = Classified(failures[1])

\* the mappings of a pid read up to a line that fails with another error
C16_Witness ==
    /\ Called("read_proc_maps_access")
    /\ call[2].ok
    /\ FailuresOf("read_proc_maps_access", call[2]) = << "Other" >>
    /\ ret[1].tag = "Fatal"

\* the u64 with bit i the other way
Flip(dev, i) == [dev EXCEPT ![i] = 1 - @]

\* no bit outside major_bits changes the major, none outside minor_bits the
\* minor
OnlyBitsMatter(major_bits, minor_bits) ==
    \A i \in 0..63 :
        LET other == dev_major_minor(Flip(call[2], i))
        IN  /\ i \notin major_bits => other[1] = ret[1][1]
            /\ i \notin minor_bits => other[2] = ret[1][2]

(***************************************************************************)
(* C17 as stated.  The major dev_major_minor returns is formed only from   *)
(* the input bits 8-11 and 44-63, the minor only from the bits 0-7 and     *)
(* 20-31: changing any other bit changes neither.                          *)
(***************************************************************************)
C17_DocumentedBits ==
    Called("dev_major_minor") => OnlyBitsMatter((8..11) \cup (44..63), (0..7) \cup (20..31))

(***************************************************************************)
(* C17, amended.  The major is formed from the input bits 8-19 (its bits   *)
(* 0-11) and 44-63 (its bits 12-31), the minor from the bits 0-7 (its bits *)
(* 0-7) and 20-31 (its bits 8-19), its bits 20-31 are 0: each of these     *)
(* bits changes its result when changed, and no other bit changes either.  *)
(***************************************************************************)
C17_BitLayout ==
    Called("dev_major_minor") =>
        LET dev == call[2]
            major == ret[1][1]
            minor == ret[1][2]
        IN  /\ \A j \in 0..31 :
                /\ major[j] = (IF j < 12 THEN dev[j + 8] ELSE dev[j + 32])
                /\ minor[j] = (IF j < 8 THEN dev[j] ELSE IF j < 20 THEN dev[j + 12] ELSE 0)
            /\ OnlyBitsMatter((8..19) \cup (44..63), (0..7) \cup (20..31))
            /\ \A i \in (8..19) \cup (44..63) : dev_major_minor(Flip(dev, i))[1] # major
            /\ \A i \in (0..7) \cup (20..31) : dev_major_minor(Flip(dev, i))[2] # minor

\* a device number with bits set in each part and outside every part
C17_Witness ==
    /\ Called("dev_major_minor")
    /\ call[2] = U64Hex("0123456789abcdef")
    /\ ret[1][1] # U32Of(0)
    /\ ret[1][2] # U32Of(0)

(***************************************************************************)
(* C18.  dev_major_minor inverts the kernel's packing: for the device      *)
(* number packed from a major of 0..4095 and a minor of 0..2^20-1 it       *)
(* returns that major and that minor; 0x801 gives (8, 1); and for every    *)
(* input it returns a pair of 32-bit values, the same each time.           *)
(***************************************************************************)
C18_InvertsPacking ==
    Called("dev_major_minor") =>
        /\ \A major \in MajorSamples : \A minor \in MinorSamples :
            call[2] = Pack(major, minor) => ret[1] = << U32Of(major), U32Of(minor) >>
        /\ call[2] = U64Hex("0000000000000801") => ret[1] = << U32Of(8), U32Of(1) >>
        /\ DOMAIN ret[1][1] = 0..31 /\ DOMAIN ret[1][2] = 0..31
        /\ \A i \in 0..31 : ret[1][1][i] \in { 0, 1 } /\ ret[1][2][i] \in { 0, 1 }
        /\ ret[1] = dev_major_minor(call[2])

\* the largest major with the largest minor
C18_Witness ==
    /\ Called("dev_major_minor")
    /\ call[2] = Pack(4095, 1048575)
    /\ ret[1] = << U32Of(4095), U32Of(1048575) >>

\* the text the rule of the thresholds gives for s whole seconds
AgoText(s) ==
    IF s < 60 THEN ToString(s) \o "s ago"
    ELSE IF s < 3600 THEN ToString(s \div 60) \o "m ago"
    ELSE IF s < 86400 THEN ToString(s \div 3600) \o "h ago"
    ELSE ToString(s \div 86400) \o "d ago"

\* format_duration_ago was called on s whole seconds
CalledOnSecs(s) == Called("format_duration_ago") /\ call[2].secs = s

(***************************************************************************)
(* C19.  format_duration_ago of s whole seconds is "<s>s ago" below 60,    *)
(* "<floor(s/60)>m ago" from 60 and below 3600, "<floor(s/3600)>h ago"     *)
(* from 3600 and below 86400, "<floor(s/86400)>d ago" from 86400 on: 5     *)
(* gives 5s, 60 and 119 give 1m, 120 gives 2m, 3600 gives 1h, 7200 gives   *)
(* 2h, 86400 gives 1d.                                                     *)
(***************************************************************************)
C19_DurationThresholds ==
    /\ Called("format_duration_ago") => ret[1] = AgoText(call[2].secs)
    /\ CalledOnSecs(5) => ret[1] = "5s ago"
    /\ CalledOnSecs(60) => ret[1] = "1m ago"
    /\ CalledOnSecs(119) => ret[1] = "1m ago"
    /\ CalledOnSecs(120) => ret[1] = "2m ago"
    /\ CalledOnSecs(3600) => ret[1] = "1h ago"
    /\ CalledOnSecs(7200) => ret[1] = "2h ago"
    /\ CalledOnSecs(86400) => ret[1] = "1d ago"

\* one hour less a second, with a fraction of a second
C19_Witness ==
    /\ CalledOnSecs(3599)
    /\ call[2].nanos > 0
    /\ ret[1] = "59m ago"

\* what follows the first ':' of a field
AfterColon(field) ==
    LET c == CHOOSE i \in 1..Len(field) :
                 Char(field, i) = ":" /\ \A j \in 1..(i - 1) : Char(field, j) # ":"
    IN  SubSeq(field, c + 1, Len(field))

\* a line of at least ten fields whose second holds a ':' followed by a hex
\* 16-bit value, whose fourth is a hex byte and whose tenth a decimal number
WellFormedLine(text) ==
    LET field == split_whitespace(text)
    IN  /\ Len(field) >= 10
        /\ \E i \in 1..Len(field[2]) : Char(field[2], i) = ":"
        /\ IsSome(parse_hex_u16(AfterColon(field[2])))
        /\ IsSome(parse_hex_u8(field[4]))
        /\ IsSome(parse_unsigned(field[10]))

\* the entry the fields of a well-formed line stand for
EntryOfLine(text, proto) ==
    LET field == split_whitespace(text)
    IN  [proto |-> proto,
         local_port |-> parse_hex_u16(AfterColon(field[2]))[1],
         inode |-> parse_unsigned(field[10])[1],
         state |-> parse_hex_u8(field[4])[1]]

\* parse_proc_net_file was called on a table all of whose lines could be read
ParsedTable ==
    /\ Called("parse_proc_net_file")
    /\ call[2][1].ok
    /\ \A i \in 1..Len(call[2][1].val) : call[2][1].val[i].ok

\* the well-formed lines of the table after the first, in the table's order
DataLines ==
    LET lines == call[2][1].val
    IN  SelectSeq([i \in 1..(Len(lines) - 1) |-> lines[i + 1].val], WellFormedLine)

(***************************************************************************)
(* C20.  parse_proc_net_file never takes the first line of a table for     *)
(* data; each later line of at least ten whitespace-separated fields, all  *)
(* well-formed, gives one entry: local_port the hex digits after ':' in    *)
(* field 2 as a 16-bit value, most significant digit first; state field 4  *)
(* as a hex byte; inode field 10 as decimal.  Local address 0100007F:0035, *)
(* state 0A and inode 46743 give local_port 53, state 0x0A, inode 46743.   *)
(***************************************************************************)
C20_TableParsing ==
    ParsedTable =>
        LET proto == call[2][2]
            entries == ret[1]
        IN  /\ entries.ok
            /\ Len(entries.val) = Len(DataLines)
            /\ \A k \in 1..Len(DataLines) :
                   entries.val[k] = EntryOfLine(DataLines[k], proto)
            /\ call[2][1].val = << NetHeader, NetLine("0100007F:0035", "0A", "46743") >>
                   => entries.val = << [proto |-> proto, local_port |-> 53,
                                        inode |-> 46743, state |-> 10] >>
            /\ \A k \in 1..Len(DataLines) :
                   split_whitespace(DataLines[k])[2] = "0100007F:3500"
                       => entries.val[k].local_port = 13568

\* a table without a header: its first line, a data line, gives no entry and
\* its second gives port 0x3500
C20_Witness ==
    /\ ParsedTable
    /\ Len(call[2][1].val) = 2
    /\ WellFormedLine(call[2][1].val[1].val)
    /\ ret[1].val = << [proto |-> "Tcp6", local_port |-> 13568, inode |-> 12, state |-> 10] >>

\* the two halves of a device field "major:minor"
BeforeColon(field) ==
    LET c == CHOOSE i \in 1..Len(field) :
                 Char(field, i) = ":" /\ \A j \in 1..(i - 1) : Char(field, j) # ":"
    IN  SubSeq(field, 1, c - 1)
SecondOfColons(field) ==
    LET rest == AfterColon(field)
    IN  IF \E i \in 1..Len(rest) : Char(rest, i) = ":" THEN BeforeColon(rest) ELSE rest

\* a line of the mappings with at least five fields whose fourth is
\* "<hex>:<hex>" and whose fifth a decimal number
WellFormedMapsLine(text) ==
    LET field == split_whitespace(text)
    IN  /\ Len(field) >= 5
        /\ \E i \in 1..Len(field[4]) : Char(field[4], i) = ":"
        /\ IsSome(parse_hex_u32(BeforeColon(field[4])))
        /\ IsSome(parse_hex_u32(SecondOfColons(field[4])))
        /\ IsSome(parse_unsigned(field[5]))

\* the entry the fields of a well-formed line of the mappings stand for
EntryOfMapsLine(text) ==
    LET field == split_whitespace(text)
    IN  [dev_major |-> parse_hex_u32(BeforeColon(field[4]))[1],
         dev_minor |-> parse_hex_u32(SecondOfColons(field[4]))[1],
         inode |-> parse_unsigned(field[5])[1],
         pathname |-> IF Len(field) >= 6 THEN Some(field[6]) ELSE None]

\* read_proc_maps_access was called on mappings all of whose lines could be read
ParsedMaps ==
    /\ Called("read_proc_maps_access")
    /\ call[2].ok
    /\ \A i \in 1..Len(call[2].val) : call[2].val[i].ok

\* the well-formed lines of the mappings, in the file's order
MapsDataLines ==
    SelectSeq([i \in 1..Len(call[2].val) |-> call[2].val[i].val], WellFormedMapsLine)

\* a malformed line stands between two well-formed lines of lines[from..]
MalformedBetween(lines, from, WellFormedAt) ==
    \E i, j, k \in from..Len(lines) :
        /\ i < j /\ j < k
        /\ WellFormedAt[i] /\ ~WellFormedAt[j] /\ WellFormedAt[k]

(***************************************************************************)
(* C21.  In parse_proc_net_file and in read_proc_maps_access a malformed   *)
(* line (too few fields, or a field that does not parse) gives no entry    *)
(* and does not end the parse: the entries returned are those of the       *)
(* well-formed lines, before and after it, in the order of the file.       *)
(***************************************************************************)
C21_MalformedLinesSkipped ==
    /\ ParsedMaps =>
           /\ ret[1].tag = "Ok"
           /\ ret[1].val = [k \in 1..Len(MapsDataLines) |-> EntryOfMapsLine(MapsDataLines[k])]
    /\ ParsedTable =>
           /\ ret[1].ok
           /\ ret[1].val = [k \in 1..Len(DataLines) |-> EntryOfLine(DataLines[k], call[2][2])]

\* mappings with a malformed line between two well-formed lines, both returned
C21_Witness ==
    /\ ParsedMaps
    /\ MalformedBetween(call[2].val, 1,
                        [i \in 1..Len(call[2].val) |-> WellFormedMapsLine(call[2].val[i].val)])
    /\ Len(ret[1].val) >= 2

\* a table that was opened and read to its end
TableReadable(file) == file.ok /\ \A i \in 1..Len(file.val) : file.val[i].ok

\* the entries of a table: those of its well-formed lines after the first, in
\* order; none when the table could not be opened or read
TableEntries(file, proto) ==
    IF ~TableReadable(file) THEN << >>
    ELSE LET data == SelectSeq([i \in 1..(Len(file.val) - 1) |-> file.val[i + 1].val],
                               WellFormedLine)
         IN  [k \in 1..Len(data) |-> EntryOfLine(data[k], proto)]

(***************************************************************************)
(* C22.  read_proc_net_sockets never returns an error: a table that cannot *)
(* be opened contributes no entry, and the entries of the other tables are *)
(* returned, concatenated in the order tcp, tcp6, udp, udp6.               *)
(***************************************************************************)
C22_BestEffortUnion ==
    Called("read_proc_net_sockets") =>
        /\ ret[1].ok
        /\ ret[1].val = TableEntries(call[2].tcp, "Tcp") \o TableEntries(call[2].tcp6, "Tcp6")
                        \o TableEntries(call[2].udp, "Udp") \o TableEntries(call[2].udp6, "Udp6")

\* tcp6 is missing, and the entries of tcp and of udp are returned around it
C22_Witness ==
    /\ Called("read_proc_net_sockets")
    /\ ~call[2].tcp6.ok
    /\ ret[1].ok
    /\ \E i, j \in 1..Len(ret[1].val) :
           i < j /\ ret[1].val[i].proto = "Tcp" /\ ret[1].val[j].proto = "Udp"

\* a name that is a positive integer in decimal
IsPositiveIntegerName(name) ==
    /\ Len(name) > 0
    /\ \A i \in 1..Len(name) : IsDigit(Char(name, i))
    /\ DecimalValue(name) > 0

\* list_pids was called on a listing of /proc that could be read to its end
ListedProc ==
    /\ Called("list_pids")
    /\ call[2].ok
    /\ \A i \in 1..Len(call[2].val) : call[2].val[i].ok

\* the entries of the listing whose names are positive integers
PidEntries == { i \in 1..Len(call[2].val) : IsPositiveIntegerName(call[2].val[i].val) }

(***************************************************************************)
(* C23.  list_pids returns, in ascending numeric order, exactly the        *)
(* entries of /proc whose names parse as positive integers: every pid      *)
(* returned is greater than zero, and an entry whose name is no positive   *)
(* integer contributes no element.                                         *)
(***************************************************************************)
C23_PidsAscendingAndPositive ==
    ListedProc =>
        LET pids_ == ret[1]
        IN  /\ pids_.ok
            /\ \A k \in 1..Len(pids_.val) : pids_.val[k] > 0
            /\ \A k \in 1..(Len(pids_.val) - 1) : pids_.val[k] <= pids_.val[k + 1]
            /\ Len(pids_.val) = Cardinality(PidEntries)
            /\ SeqToSet(pids_.val) = { DecimalValue(call[2].val[i].val) : i \in PidEntries }

\* "10" listed before "9" with another entry that is no pid: 9 and 10 returned
C23_Witness ==
    /\ ListedProc
    /\ \E i, j, k \in 1..Len(call[2].val) :
           /\ i < j
           /\ call[2].val[i].val = "10" /\ call[2].val[j].val = "9"
           /\ call[2].val[k].val = "self"
    /\ ret[1].val = << 9, 10 >>

\* the reads of the command name of pid p made in this pass
CommReadsOf(p) == { i \in ReadsAt("read_comm_access") : reads[i].pid = p }

\* a read of this pass shows pid p to match the target: a descriptor or a
\* mapping of the target file, or a descriptor of a socket of the target set
Matched(p) ==
    IF mode \in PathModes
    THEN \E i \in PerPidReads :
            /\ reads[i].pid = p
            /\ reads[i].res.tag = "Ok"
            /\ \/ /\ reads[i].op = "read_fd_links_access"
                  /\ scan_pid_open_fd_file(reads[i].res, target_id[1]).val
               \/ /\ reads[i].op = "read_proc_maps_access"
                  /\ scan_pid_mmap_file(reads[i].res, target_dev[1], target_dev[2],
                                        target_id[1].inode).val
    ELSE HoldsSocketOf(p, target_inodes)

(***************************************************************************)
(* C24.  Within one pass the command name of a pid is read at most once,   *)
(* however many of its descriptors or checks match, and only for a pid     *)
(* with a match; a later pass reads it again for its own matches: nothing  *)
(* cached in one pass is visible to another.                               *)
(***************************************************************************)
C24_CommandNameReadOncePerPass ==
    \A p \in Pids :
        /\ Cardinality(CommReadsOf(p)) <= 1
        /\ CommReadsOf(p) # {} => Matched(p)
        /\ pc = "done" /\ result = "Ok" /\ Matched(p) => CommReadsOf(p) # {}

\* a second pass found a pid with both an open descriptor and a mapping of the
\* target and read its command name once
C24_Witness ==
    /\ IsSome(earlier)
    /\ mode = "whyopen_path"
    /\ pc = "done"
    /\ \E i \in 1..Len(holders) :
           /\ holders[i].value.reasons = << "memory mapped", "open fd" >>
           /\ Cardinality(CommReadsOf(holders[i].key)) = 1

\* the two upper-case hex digits that read as the byte n
TwoHexDigits(n) ==
    CHOOSE s \in { Char(UpperHexDigits, i) \o Char(UpperHexDigits, j) : i, j \in 1..16 } :
        HexValue(s) = n

\* the label of an entry of the socket tables: "socket <tcp|udp> <state>"
LabelOfEntry(e) ==
    LET tcp == e.proto \in { "Tcp", "Tcp6" }
        state == IF tcp /\ e.state = 10 THEN "listening"
                 ELSE IF tcp /\ e.state = 1 THEN "established"
                 ELSE IF ~tcp /\ e.state = 7 THEN "listening"
                 ELSE "0x" \o TwoHexDigits(e.state)
    IN  "socket " \o (IF tcp THEN "tcp" ELSE "udp") \o " " \o state

\* the labels of the entries with the target port whose socket pid p holds
LabelsHeldBy(p) ==
    { LabelOfEntry(sockets[i]) :
        i \in { j \in 1..Len(sockets) :
                  /\ sockets[j].local_port = port
                  /\ HoldsSocketOf(p, { sockets[j].inode }) } }

(***************************************************************************)
(* C25.  whyopen port mode: the reasons of every pid of the result are the *)
(* sorted, duplicate-free labels "socket <tcp|udp> <state>" of all entries *)
(* with the target port whose inode is among the pid's socket descriptors, *)
(* <state> being listening or established for the recognised codes and     *)
(* 0xHH, two upper-case hex digits, for any other; entries sharing one     *)
(* inode all give their labels.                                            *)
(***************************************************************************)
C25_ReasonsAreTheLabels ==
    mode = "whyopen_port" =>
        \A i \in 1..Len(holders) :
            /\ ReasonsSortedUnique(holders[i].value.reasons)
            /\ SeqToSet(holders[i].value.reasons) = LabelsHeldBy(holders[i].key)

\* a pid holding two sockets of the port, each of two entries, one of them in
\* a state without a name
C25_Witness ==
    /\ mode = "whyopen_port"
    /\ pc = "done"
    /\ \E i \in 1..Len(holders) :
           holders[i].value.reasons =
               << "socket tcp established", "socket tcp listening", "socket udp 0x01" >>

\* scan_pid_mmap_file was called on a mapping list that was read
ScannedMaps == Called("scan_pid_mmap_file") /\ call[2][1].tag = "Ok"

\* the entries of the scanned list with the target's device and inode
EntriesOfTarget ==
    LET maps == call[2][1].val
    IN  { k \in 1..Len(maps) :
            /\ U32Of(maps[k].dev_major) = call[2][2]
            /\ U32Of(maps[k].dev_minor) = call[2][3]
            /\ maps[k].inode = call[2][4] }

(***************************************************************************)
(* C26.  scan_pid_mmap_file reports a match if and only if the mapping     *)
(* list holds an entry with an inode other than 0 whose (dev_major,        *)
(* dev_minor, inode) all equal the target's; an entry with inode 0 never   *)
(* gives a match, whatever the target.                                     *)
(***************************************************************************)
C26_MappingMatch ==
    ScannedMaps =>
        /\ ret[1].tag = "Ok"
        /\ ret[1].val <=> \E k \in EntriesOfTarget : call[2][1].val[k].inode # 0
        /\ call[2][4] = 0 => ~ret[1].val

\* the list holds an entry with the target's device and inode 0: no match
C26_Witness ==
    /\ ScannedMaps
    /\ call[2][4] = 0
    /\ EntriesOfTarget # {}
    /\ ret[1] = Ok(FALSE)

(***************************************************************************)
(* C27.  Every successful result is labelled with its completeness: the    *)
(* partial flag is true exactly when the skipped count is above 0, the     *)
(* skipped value is the number of distinct pids of the skipped set, and    *)
(* the human output prints the "Partial result" line exactly then.         *)
(***************************************************************************)
C27_PartialIsLabelled ==
    pc = "done" /\ result = "Ok" =>
        LET n == Cardinality(skipped_permission_denied)
        IN  /\ Len(out) = 1
            /\ out[1].skipped = n
            /\ out[1].partial <=> n > 0
            /\ IsSome(out[1].partial_line) <=> n > 0
            /\ n > 0 => out[1].partial_line[1] =
                   "Partial result: " \o ToString(n) \o " processes skipped (permission denied)"

\* a pass that skipped two pids and found no holder
C27_Witness ==
    /\ pc = "done"
    /\ result = "Ok"
    /\ skipped_permission_denied = { 1, 2 }
    /\ out[1].results = << >>
    /\ out[1].partial
    /\ out[1].partial_line =
           Some("Partial result: 2 processes skipped (permission denied)")

\* the pids found to hold the target so far: the keys of the holder
\* collection, or (ports listing) the pids pushed for a socket
HolderSet ==
    IF mode = "whoholds_ports"
    THEN UNION { SeqToSet(inode_to_pids[n]) : n \in DOMAIN inode_to_pids }
    ELSE SeqToSet(HolderPids)

(***************************************************************************)
(* C28.  In every mode and every state of a pass the holder set and the    *)
(* skipped_permission_denied set are disjoint, and each pid of the         *)
(* snapshot is counted as skipped at most once: the count never exceeds    *)
(* the number of pids of the snapshot.                                     *)
(***************************************************************************)
C28_HoldersAndSkippedDisjoint ==
    /\ HolderSet \cap skipped_permission_denied = {}
    /\ skipped_permission_denied \subseteq SeqToSet(pids)
    /\ Cardinality(skipped_permission_denied) <= Len(pids)
    /\ pc = "done" /\ result = "Ok" => out[1].skipped <= Len(pids)

\* whyopen found a holder by its mappings though its descriptors were denied,
\* and skipped another pid
C28_Witness ==
    /\ mode = "whyopen_path"
    /\ pc = "done"
    /\ \E p \in HolderSet : Answered("read_fd_links_access", p, "PermissionDenied")
    /\ skipped_permission_denied # {}

\* the pids of the holder collection the earlier pass ended with
EarlierHolderPids ==
    { earlier[1].holders[i].key : i \in 1..Len(earlier[1].holders) }

\* both tools have finished a pass over the path with success (no descriptor
\* or mapping read was answered Fatal), the second over the snapshot and with
\* the answers of the first
BothToolsDone ==
    /\ IsSome(earlier)
    /\ mode \in PathModes
    /\ pc = "done"
    /\ result = "Ok"
    /\ earlier[1].result = "Ok"

(***************************************************************************)
(* C29.  whoholds and whyopen agree in path mode: for the same target, the *)
(* same snapshot and the same outcomes of the per-pid descriptor and       *)
(* mapping reads, none Fatal, the set of holder pids of whoholds_path is   *)
(* the set of pids whyopen_path reports.                                   *)
(***************************************************************************)
C29_ToolsAgreeOnHolders ==
    BothToolsDone => SeqToSet(HolderPids) = EarlierHolderPids

\* the read of the command name of pid p was answered PermissionDenied or Gone
CommUnreadable(p) ==
    \/ Answered("read_comm_access", p, "PermissionDenied")
    \/ Answered("read_comm_access", p, "Gone")

\* the rows of the printed body that are of pid p
RowsOfPid(p) == { i \in 1..Len(out[1].results) : out[1].results[i].pid = p }

\* pid p is printed, and in each of its rows with the command "<unknown>"
PrintedUnknown(p) ==
    /\ RowsOfPid(p) # {}
    /\ \A i \in RowsOfPid(p) : out[1].results[i].command = "<unknown>"

\* whyopen path mode: the mapping read made after the match found pid p gone
GoneAfterMatch(p) ==
    mode = "whyopen_path" /\ Answered("read_proc_maps_access", p, "Gone")

(***************************************************************************)
(* C30 as stated.  When a pid has a match and the read of its command name *)
(* is answered PermissionDenied or Gone, the pid stays in the result with  *)
(* the command "<unknown>", and the read does not add it to                *)
(* skipped_permission_denied.                                              *)
(***************************************************************************)
C30_UnreadableNameKeepsHolder ==
    \A p \in Pids :
        CommUnreadable(p) =>
            /\ p \notin skipped_permission_denied
            /\ pc = "done" /\ result = "Ok" => PrintedUnknown(p)

(***************************************************************************)
(* C30, amended.  When a pid has a match and the read of its command name  *)
(* is answered PermissionDenied or Gone, the read does not add the pid to  *)
(* skipped_permission_denied, and the pid is a holder (of a pass that does *)
(* not fail) and is printed with the command "<unknown>" by a pass that    *)
(* ends with success, except in                                            *)
(* whyopen path mode when the mapping read that follows the match is       *)
(* answered Gone: that pid is excluded as a vanished process.              *)
(***************************************************************************)
C30_UnreadableNameKeepsHolderUnlessGone ==
    \A p \in Pids :
        CommUnreadable(p) =>
            /\ p \notin skipped_permission_denied
            /\ GoneAfterMatch(p) => p \notin HolderSet
            /\ ~GoneAfterMatch(p) =>
                   /\ result # "Fatal" => p \in HolderSet
                   /\ pc = "done" /\ result = "Ok" => PrintedUnknown(p)

\* whyopen printed a pid whose command name was denied and whose descriptors
\* were denied too, and skipped nothing
C30_Witness ==
    /\ mode = "whyopen_path"
    /\ pc = "done"
    /\ result = "Ok"
    /\ skipped_permission_denied = {}
    /\ \E p \in Pids :
           /\ Answered("read_comm_access", p, "PermissionDenied")
           /\ Answered("read_fd_links_access", p, "PermissionDenied")
           /\ PrintedUnknown(p)

====
